---- MODULE Spec2Model ----
(***************************************************************************)
(* ANIMA: the Telegram webhook of api/main.py (onboarding questionnaire,   *)
(* topic controller, psychometric profile), the webhook of                 *)
(* api/routes/telegram.py and the idempotency primitive of api/db.py.      *)
(*                                                                         *)
(* Strings.  TLA+ strings are ASCII, the program's texts are Russian.      *)
(* Every string of the source is written here letter for letter in a       *)
(* one-to-one transliteration, already lower-cased:                        *)
(*   а a  б b  в v  г g  д d  е e  ё O  ж J  з z  и i  й Y  к k  л l  м m  *)
(*   н n  о o  п p  р r  с s  т t  у u  ф f  х h  ц c  ч C  ш S  щ W  ъ Q  *)
(*   ы y  ь q  э E  ю U  я A                                               *)
(*   « <   » >   en/em dash ~   ≈ =   … _   newline |   any emoji *        *)
(* so Len(s) is Python's len(s), and substring search on the model's       *)
(* strings is substring search on the program's strings.  User texts are   *)
(* lower-case too: every pattern of the program is applied to              *)
(* text.lower() or compiled with re.IGNORECASE, so str.lower() is the      *)
(* identity on the texts of the model.                                     *)
(*                                                                         *)
(* Numbers.  Scores, deltas and confidences are kept in thousandths        *)
(* (0.4 is 400, 0.02 is 20), in exact integer arithmetic.                  *)
(***************************************************************************)
EXTENDS Integers, Sequences, FiniteSets, TLC

VARIABLES
  user_profile,      \* main.py: TRUE iff the user's row of user_profile exists
  app_state,         \* main.py: facts["app_state"] of that row, a dictionary
  psycho_profile,    \* main.py: the user's row of psycho_profile, or NoRow
  dialog_events,     \* main.py: [n |-> rows of dialog_events, last |-> the newest row]
  call,              \* main.py: what the last webhook call did (update, branch, sends, response)
  processed_updates, \* db.py: the update_ids recorded in processed_updates
  callers,           \* db.py: the concurrent callers of mark_update_processed
  r_user,            \* routes/telegram.py: TRUE iff the user's row exists
  r_state,           \* routes/telegram.py: the user's app state, a dictionary
  r_events,          \* routes/telegram.py: number of log_event rows
  r_call,            \* routes/telegram.py: what the last webhook call did
  handlers           \* main.py: the webhook calls of one user that run concurrently

vars == <<user_profile, app_state, psycho_profile, dialog_events, call,
          processed_updates, callers, r_user, r_state, r_events, r_call, handlers>>
main_vars == <<user_profile, app_state, psycho_profile, dialog_events, call>>
db_vars == <<processed_updates, callers>>
routes_vars == <<r_user, r_state, r_events, r_call>>
race_vars == <<handlers>>

-----------------------------------------------------------------------------
\* Python values

\* None, for values that are otherwise strings
None == "None"
\* None, for values that are otherwise integers (kno_idx, update_id)
NoneInt == -1
\* an absent row (q(...) returned no rows), an empty dict, an empty list
NoRow == <<>>
EmptyDict == <<>>

\* d.get(k, default) of a dictionary
Get(d, k, default) == IF k \in DOMAIN d THEN d[k] ELSE default

\* d.update(patch): the patch's keys win
Update(d, patch) == patch @@ d

Min(S) == CHOOSE x \in S : \A y \in S : x <= y
Max(S) == CHOOSE x \in S : \A y \in S : x >= y

-----------------------------------------------------------------------------
\* Strings and patterns.  A pattern that is an alternation of literals is the
\* set of its literals; re.search is substring search for any of them.

\* stem occurs in s at (1-based) position i
Occurs(s, stem, i) ==
  /\ i + Len(stem) - 1 <= Len(s)
  /\ SubSeq(s, i, i + Len(stem) - 1) = stem

\* Python's "x in s"
Contains(s, x) == Len(x) = 0 \/ \E i \in 1..Len(s) : Occurs(s, x, i)

\* the (1-based) positions where a match of the alternation R starts
Positions(R, s) == {i \in 1..Len(s) : \E stem \in R : Occurs(s, stem, i)}

\* bool(R.search(s))
re_search(R, s) == Positions(R, s) # {}

\* R.search(s).start(), 0-based; -1 when there is no match
match_start(R, s) == IF Positions(R, s) = {} THEN -1 ELSE Min(Positions(R, s)) - 1

\* \w of Python's re on the model's alphabet: letters, digits, underscore
WordChars ==
  {"a","b","c","d","e","f","g","h","i","j","k","l","m","n","o","p","q","r","s","t",
   "u","v","w","x","y","z","A","C","E","J","O","Q","S","U","W","Y",
   "0","1","2","3","4","5","6","7","8","9","_"}

IsWordChar(s, i) == i >= 1 /\ i <= Len(s) /\ SubSeq(s, i, i) \in WordChars

\* re.search(r"\bw\b", s) for some literal w of W (w begins and ends with a letter)
word_search(W, s) ==
  \E i \in 1..Len(s) : \E w \in W :
    /\ Occurs(s, w, i)
    /\ ~IsWordChar(s, i - 1)
    /\ ~IsWordChar(s, i + Len(w))

-----------------------------------------------------------------------------
\* Safety patterns (main.py 46-50)

STOP == {"politik", "relig", "nasili", "medicinsk", "vakcin", "diagnoz", "lekarstv", "suicid"}
CRISIS == {"ne hoCu Jitq", "samopovreJd", "otCaAni", "suicid", "pokonCi", "bolq nevynosima"}

crisis_detect(t) == re_search(CRISIS, t)

-----------------------------------------------------------------------------
\* Emotion and conversation phase (main.py 53-68)

detect_emotion(t) ==
  IF re_search({"ustal", "naprAJ", "trevoJ", "straS", "zlUsq", "zlostq", "razdraJ",
                "tAJelo", "grustn", "panik"}, t) THEN "tense"
  ELSE IF re_search({"spokoYn", "rad", "legko", "horoSo", "poluCilosq", "Asno"}, t) THEN "calm"
  ELSE IF re_search({"ne znaU", "putaUsq", "somneva", "neponAt", "rasterAn"}, t) THEN "uncertain"
  ELSE "neutral"

choose_phase(last_phase, emotion, text) ==
  IF emotion \in {"tense", "uncertain"} THEN "engage"
  ELSE IF word_search({"fokus"}, text) \/ re_search({"glavn", "sosredotoC"}, text) THEN "focus"
  ELSE IF word_search({"poCemu", "zaCem"}, text)
          \/ re_search({"dumaU", "hoCu ponAtq", "kaJetsA"}, text) THEN "evoke"
  ELSE IF re_search({"gotov", "sdelaU", "poprobuU", "naCnu", "planir"}, text) THEN "plan"
  ELSE IF last_phase = "engage" THEN "focus" ELSE last_phase

-----------------------------------------------------------------------------
\* The questionnaire (main.py 71-79, 110-125)

KNO ==
  <<[key |-> "ei_q1", text |-> "kogda ty ustaOSq ~ Cto pomogaet bystree vosstanavlivatqsA: poobWatqsA s lUdqmi * ili pobytq naedine *?"],
    [key |-> "sn_q1", text |-> "Cto tebe bliJe: deYstvovatq po konkretnym Sagam i faktam * ili orientirovatqsA na ideU i smysl *?"],
    [key |-> "tf_q1", text |-> "kak ty CaWe prinimaeSq reSeniA: Cerez logiku i argumenty * ili Cerez Cuvstva i vnutrennie cennosti *?"],
    [key |-> "jp_q1", text |-> "kogda tebe spokoYnee: kogda vsO COtko splanirovano * ili kogda estq svoboda i improvizaciA *?"],
    [key |-> "jp_q2", text |-> "kogda mnogo zadaC: spisok zaranee ili probovatq i smotretq po situacii?"],
    [key |-> "ei_q2", text |-> "kogda nuJno razobratqsA: pogovoritq s kem-to ili zapisatq mysli dlA sebA?"]>>
KNO_MAP ==
  [ei_q1 |-> <<"E", "I">>, sn_q1 |-> <<"S", "N">>, tf_q1 |-> <<"T", "F">>, jp_q1 |-> <<"J", "P">>, jp_q2 |-> <<"J", "P">>, ei_q2 |-> <<"E", "I">>]

\* key.startswith(prefix)
StartsWith(s, prefix) == Len(s) >= Len(prefix) /\ SubSeq(s, 1, Len(prefix)) = prefix

\* a stricter reading of an answer: a text that names no option is no choice (0)
pick_strictly(question_key, t) ==
  IF t \in {"1", "pervyY", "pervoe", "pervaA"} THEN 1
  ELSE IF t \in {"2", "vtoroY", "vtoroe", "vtoraA"} THEN 2
  ELSE 0

pick_by_keywords(question_key, t) ==
  IF t \in {"1", "pervyY", "pervoe", "pervaA"} THEN 1
  ELSE IF t \in {"2", "vtoroY", "vtoroe", "vtoraA"} THEN 2
  ELSE IF StartsWith(question_key, "ei_")
          /\ (Contains(t, "naedin") \/ Contains(t, "odin") \/ Contains(t, "tiSin")) THEN 2
  ELSE IF StartsWith(question_key, "ei_")
          /\ (Contains(t, "lUd") \/ Contains(t, "obWat") \/ Contains(t, "vstreC")) THEN 1
  ELSE IF StartsWith(question_key, "sn_")
          /\ (Contains(t, "fakt") \/ Contains(t, "konkret") \/ Contains(t, "Sag")) THEN 1
  ELSE IF StartsWith(question_key, "sn_")
          /\ (Contains(t, "smysl") \/ Contains(t, "ide") \/ Contains(t, "obraz")) THEN 2
  ELSE IF StartsWith(question_key, "tf_")
          /\ (Contains(t, "logik") \/ Contains(t, "racion") \/ Contains(t, "argument")) THEN 1
  ELSE IF StartsWith(question_key, "tf_")
          /\ (Contains(t, "Cuvstv") \/ Contains(t, "Emoci") \/ Contains(t, "cennost")) THEN 2
  ELSE IF StartsWith(question_key, "jp_")
          /\ (Contains(t, "plan") \/ Contains(t, "raspis") \/ Contains(t, "kontrol")) THEN 1
  ELSE IF StartsWith(question_key, "jp_")
          /\ (Contains(t, "svobod") \/ Contains(t, "improv") \/ Contains(t, "spontan")) THEN 2
  ELSE 1

-----------------------------------------------------------------------------
\* Profile arithmetic (main.py 151-195)

\* thousandths: 1.0
ONE == 1000
\* ewma's alpha = 0.1, as a divisor
ALPHA_DIV == 10
\* the confidence written at the end of the questionnaire, 0.4
KNO_CONFIDENCE == 400
\* the confidence step 0.02 and cap 0.99 of update_profile
CONF_STEP == 20
CONF_CAP == 990
\* the type label is shown from confidence 0.4
REVEAL == 400
\* an axis at or above 0.5 takes the first letter
HALF == 500
\* anchors kept
ANCHORS_KEPT == 50
\* the deltas of classify_relevance: 0.2 and 0.15
DELTA_BIG == 200
DELTA_SMALL == 150

\* one cue of classify_relevance: pattern, axis, signed delta, quote
CUES ==
  << [re |-> {"planir", "raspisan", "kontrolir"},          axis |-> "jp", delta |-> DELTA_BIG,    quote |-> "planirovanie"],
     [re |-> {"spontan", "improviz"},                       axis |-> "jp", delta |-> -DELTA_BIG,   quote |-> "spontannostq"],
     [re |-> {"vstreC", "komanda", "lUdeY", "lUdAm", "obWatq"}, axis |-> "ei", delta |-> DELTA_BIG, quote |-> "obWitelqnostq"],
     [re |-> {"tiSin", "odin", "naedine"},                  axis |-> "ei", delta |-> -DELTA_BIG,   quote |-> "uedinenie"],
     [re |-> {"fakty", "poSagov", "konkretn"},              axis |-> "sn", delta |-> -DELTA_SMALL, quote |-> "fakty"],
     [re |-> {"smysl", "obraz", "ideA"},                    axis |-> "sn", delta |-> DELTA_SMALL,  quote |-> "smysly"],
     [re |-> {"logik", "racio", "sravn"},                   axis |-> "tf", delta |-> DELTA_SMALL,  quote |-> "analiz"],
     [re |-> {"Cuvstv", "garmoni", "Emoci"},                axis |-> "tf", delta |-> -DELTA_SMALL, quote |-> "EmpatiA"] >>

\* the eight ifs of classify_relevance, in order, from cue i on
RECURSIVE relevance_from(_, _, _)
relevance_from(tl, i, acc) ==
  IF i > Len(CUES) THEN acc
  ELSE IF re_search(CUES[i].re, tl)
       THEN relevance_from(tl, i + 1,
              [rel |-> TRUE,
               axes |-> Update(acc.axes,
                          CUES[i].axis :> (Get(acc.axes, CUES[i].axis, 0) + CUES[i].delta)),
               anchors |-> Append(acc.anchors, [axis |-> CUES[i].axis, quote |-> CUES[i].quote])])
       ELSE relevance_from(tl, i + 1, acc)

classify_relevance(t) ==
  relevance_from(t, 1, [rel |-> FALSE, axes |-> EmptyDict, anchors |-> <<>>])

\* max(0.0, min(1.0, v + alpha * delta))
\* the smoothing step without its clamp
ewma_unclamped(v, delta) == v + delta \div ALPHA_DIV

ewma(v, delta) == Max({0, Min({ONE, v + delta \div ALPHA_DIV})})

to_mbti(ei, sn, tf, jp) ==
  (IF ei >= HALF THEN "E" ELSE "I") \o (IF sn >= HALF THEN "N" ELSE "S")
    \o (IF tf >= HALF THEN "T" ELSE "F") \o (IF jp >= HALF THEN "J" ELSE "P")

-----------------------------------------------------------------------------
\* Tone and the generic replies (main.py 189-220)

\* p.get(axis, 0.5) of a profile row or of the default profile
comms_style(p) ==
  [tone   |-> IF Get(p, "ei", HALF) >= HALF THEN "aktivnyY" ELSE "spokoYnyY",
   detail |-> IF Get(p, "sn", HALF) >= HALF THEN "smysly" ELSE "Sagi",
   mind   |-> IF Get(p, "tf", HALF) >= HALF THEN "analiz" ELSE "Cuvstva",
   plan   |-> IF Get(p, "jp", HALF) >= HALF THEN "plan" ELSE "Eksperiment"]

REFLECT_TENSE == "slySu naprAJenie i zabotu o rezulqtate. "
REFLECT_CALM == "CuvstvuU spokoYstvie i lOgkostq. "
REFLECT_UNCERTAIN == "viJu, Cto hoCetsA Asnosti. "
REFLECT_NEUTRAL == "A rAdom i slySu tebA. "

reflect_emotion(text) ==
  IF re_search({"ustal", "naprAJ", "trevoJ", "zlUsq", "zlostq", "razdraJ", "tAJelo",
                "grustn", "panik"}, text) THEN REFLECT_TENSE
  ELSE IF re_search({"spokoYn", "rad", "legko", "poluCilosq", "horoSo", "Asno"}, text)
       THEN REFLECT_CALM
  ELSE IF re_search({"ne znaU", "putaUsq", "somneva", "neponAt", "rasterAn"}, text)
       THEN REFLECT_UNCERTAIN
  ELSE REFLECT_NEUTRAL

open_question(phase, style) ==
  IF phase = "engage" THEN "Cto seYCas dlA tebA samoe vaJnoe?"
  ELSE IF phase = "focus" THEN "na COm tebe hoCetsA ostanovitqsA v pervuU oCeredq?"
  ELSE IF phase = "evoke" THEN
         IF style.detail = "smysly" THEN "kakoY smysl ty vidiSq zdesq?"
         ELSE "kakie konkretnye Sagi ty vidiSq zdesq?"
  ELSE IF phase = "plan" THEN
         IF style.plan = "plan" THEN "kakoY malenqkiY Sag ty gotova zaplanirovatq na segodnA?"
         ELSE "kakoY lOgkiY Eksperiment poprobueSq snaCala?"
  ELSE "rasskaJi nemnogo bolqSe?"

\* personalized_reply, given the profile row it selects (NoRow: the 0.5 defaults)
\* and reflect_emotion(text)
personalized_reply(profile, reflection, phase) ==
  reflection \o open_question(phase, comms_style(profile))

-----------------------------------------------------------------------------
\* Intents and sub-intents (main.py 224-475), in declaration order

INTENTS ==
  <<
  [key |-> "work", title |-> "rabota/karqera",
   re |-> {"rabot", "karqer", "kolleg", "naCalq", "sobesedovan", "vygor", "proek", "dedlaYn"},
   children |-> <<
      [key |-> "job_search", title |-> "poisk raboty",
       re |-> {"rezUm", "sobesed", "hh.", "headhunt", "vakansi", "isku rabotu", "iskatq rabotu", "naYti rabotu"},
       prompts |-> <<
           "esli pro poisk raboty: na kakuU rolq/urovenq ty celiSqsA i poCemu Eto podhodit?",
           "kakie 3 vakansii ty vybereSq segodnA i Cto otpraviSq po kaJdoY?",
           "kogda zaplanirueSq 2 korotkih otklika (15 minut sloty)?">>],
      [key |-> "burnout", title |-> "vygoranie/peregruz",
       re |-> {"vygor", "peregruz", "ne mogu", "istoWen", "istoWena", "obessil"},
       prompts |-> <<
           "esli pro peregruz: Cto bolqSe vsego istoWaet ~ zadaCi, lUdi, neopredelOnnostq?",
           "Cto toCno v tvoeY zone kontrolA na EtoY nedele (1~2 malenqkih Saga vosstanovleniA)?",
           "kakoY ritual-opora dobavim segodnA (son/pauzy/granicy)?">>],
      [key |-> "conflict_boss", title |-> "konflikt s naCalqnikom/kollegoY",
       re |-> {"konflik", "rukovod", "naCalq", "toksiC", "nespravedl", "ocenka", "fidbEk"},
       prompts |-> <<
           "esli pro konflikt: o COm na samom dele spor ~ zadaCa, sposob, granicy, uvaJenie?",
           "kakaA tvoA potrebnostq zdesq i kak eO bereJno oboznaCitq?",
           "kakoY bezopasnyY Sag v kommunikacii ty poprobueSq v bliJaYSie 24 Casa?">>],
      [key |-> "career_change", title |-> "smena sfery/rost",
       re |-> {"smena karqer", "smenitq karqer", "pereYti v", "dJun", "midl", "senqor", "razvitie", "povySeni"},
       prompts |-> <<
           "esli pro rost/smenu: kak vyglAdit JelaemaA rolq Cerez 6~12 mesAcev?",
           "kakie 2-3 kompetencii dadut 80% progressa? Cto vybereSq pervoY?",
           "kakoY mikro-Sag sdelaeSq na EtoY nedele (kurs, pet-proekt, sozvon)?">>]>>],
  [key |-> "relations", title |-> "otnoSeniA",
   re |-> {"otnoSen", "partner", "muJ", "Jena", "parn", "devuSk", "konflikt", "ssora", "dover", "razvod", "rasstavan"},
   children |-> <<
      [key |-> "dating", title |-> "poisk/znakomstva",
       re |-> {"znakomstv", "tinder", "tinder", "svidan", "poznakom", "naYti par", "kak naYti muJ", "kak naYti Jen"},
       prompts |-> <<
           "esli pro znakomstva: kakoY format otnoSeniY tebe pravda podhodit seYCas?",
           "kakie 2 ploWadki poprobueSq i kakoY Sag sdelaeSq segodnA?",
           "Cto napiSeSq v pervom soobWenii ~ korotko i po-Jivomu?">>],
      [key |-> "partner_conflict", title |-> "konflikt s partnOrom",
       re |-> {"ssor", "ruga", "molCani", "ignor", "possorilisq", "obida"},
       prompts |-> <<
           "esli pro konflikt: Cto ty CuvstvueSq i kakaA potrebnostq za Etim stoit?",
           "kak zvuCit <A-soobWenie>, Ctoby oboznaCitq granicu bez napadeniA?",
           "kakoY odin tOplyY Sag k dialogu sdelaeSq segodnA?">>],
      [key |-> "trust_intimacy", title |-> "doverie/blizostq",
       re |-> {"dover", "revnost", "blizost", "tepl", "podderJk"},
       prompts |-> <<
           "esli pro blizostq: kakoY moment doveriA hoCeSq vosstanovitq/usilitq?",
           "Cto ty gotova sdelatq, Ctoby partnOr Cuvstvoval(a) sebA v bezopasnosti?",
           "kakuU malenqkuU tradiciU/ritual vvedOm na EtoY nedele?">>]>>],
  [key |-> "health", title |-> "zdorovqe/privyCki",
   re |-> {"zdorov", "son", "reJim", "privyC", "sport", "pitani", "ves", "diet", "sahar", "alko"},
   children |-> <<
      [key |-> "sleep", title |-> "son/reJim",
       re |-> {"son", "reJim sna", "loJusq", "ne splU", "bessonnic"},
       prompts |-> <<
           "esli pro son: kakoY prostoY protokol poprobuem 3 dnA podrAd (Cas sna/Ekran/ritual)?",
           "Cto meSaet CaWe vsego i kak Eto ubratq/umenqSitq?",
           "kogda loJiSqsA segodnA i kakoY ritual pered snom dobavim?">>],
      [key |-> "nutrition", title |-> "pitanie/EnergiA",
       re |-> {"pitan", "pereed", "sladk", "golod", "Energi"},
       prompts |-> <<
           "esli pro pitanie: Cto hoCeSq izmenitq v pervuU oCeredq ~ Castotu, sostav, veCernie perekusy?",
           "kakoY odin ustoYCivyY Akorq pitaniA vvedOm (zavtrak/voda/tarelka)?",
           "kak proveriSq rezulqtat Cerez nedelU ~ po samoCuvstviU/Energii?">>],
      [key |-> "habits", title |-> "poleznye privyCki",
       re |-> {"privyC", "ritual", "eJednevn", "treker"},
       prompts |-> <<
           "esli pro privyCki: kakuU 1 mini-privyCku vozqmOm na 5 minut v denq?",
           "kakie trigger i nagradu zadadim, Ctoby zapuskalasq proWe?",
           "kogda pervyY zapusk ~ segodnA?">>]>>],
  [key |-> "mood", title |-> "samoCuvstvie/nastroenie",
   re |-> {"grust", "peCalq", "trevog", "panik", "nastroen", "stress", "ustal", "vygor"},
   children |-> <<
      [key |-> "anxiety", title |-> "trevoga/paniCeskie simptomy",
       re |-> {"panik", "serdcebien", "trevog", "navAzC", "katastrof"},
       prompts |-> <<
           "esli pro trevogu: Cto eO usilivaet ~ mysli, kofein, peregruz, neopredelOnnostq?",
           "vyberem korotkuU praktiku na segodnA (dyhanie 4-7-8/zazemlenie/pause). Cto otklikaetsA?",
           "kak otmetiSq Effekt Cerez Cas ~ Skala 0~10?">>],
      [key |-> "sadness", title |-> "grustq/apatiA",
       re |-> {"grust", "apat", "net sil", "niCego ne hoCetsA"},
       prompts |-> <<
           "esli pro grustq: Cto seYCas bereJno podderJit ~ teplo, reCq s drugom, progulka?",
           "sdelaem mikro-dozu deYstviA (5 minut), kakuU vybereSq?",
           "kak poblagodariSq sebA za malenqkiY Sag segodnA?">>],
      [key |-> "selfesteem", title |-> "samoprinAtie/uverennostq",
       re |-> {"uveren", "samoocen", "styd", "vina", "vinU"},
       prompts |-> <<
           "esli pro uverennostq: v kakoY situacii Eto osobenno CuvstvuetsA?",
           "kakaA tvoA silqnaA storona pomoJet prAmo zdesq?",
           "kakoY nebolqSoY Sag/trenirovka uverennosti umestna segodnA?">>]>>],
  [key |-> "finance", title |-> "denqgi/finansy",
   re |-> {"finans", "denqg", "bUdJet", "kredit", "kopi", "traty", "dohod"},
   children |-> <<
      [key |-> "debt", title |-> "dolgi/kredity",
       re |-> {"dolg", "kredit", "vyplat", "plateJ", "pereplat"},
       prompts |-> <<
           "esli pro dolgi: kakaA summa/sroki/stavki ~ soberOm kartinu?",
           "Cto moJno optimizirovatq na EtoY nedele (refinans/peregovory/zamorozka trat)?",
           "kakoY pervyY zvonok/zaAvku sdelaeSq segodnA?">>],
      [key |-> "budget", title |-> "bUdJet/uCOt",
       re |-> {"bUdJet", "uCet", "uCOt", "trat", "rashod", "tablic", "koSelek"},
       prompts |-> <<
           "esli pro bUdJet: kakuU celq stavim na mesAc (v procentah/summe)?",
           "kakoY instrument vyberem (tablica/priloJenie) i kogda zavedOSq kategorii?",
           "kogda sdelaeSq pervyY 10-minutnyY uCOt za segodnA?">>],
      [key |-> "income", title |-> "dohod/podrabotka",
       re |-> {"dohod", "podrabot", "frilans", "stavk", "povySen"},
       prompts |-> <<
           "esli pro dohod: kakie 2-3 idei rosta kaJutsA realqnymi?",
           "kakoY malenqkiY test vypolnim za 48 Casov, Ctoby proveritq spros?",
           "kak izmeriSq rezulqtat i Cto reSiSq po itogam?">>]>>],
  [key |-> "productivity", title |-> "uCOba/produktivnostq",
   re |-> {"uCeb", "Ekzam", "kurs", "uCitq", "produktivn", "len", "prokrastin", "fokus", "dedlaYn"},
   children |-> <<
      [key |-> "procrastination", title |-> "prokrastinaciA",
       re |-> {"prokrastin", "tAnu", "ne mogu naCatq", "otkladyv"},
       prompts |-> <<
           "esli pro prokrastinaciU: Cto v zadaCe delaet eO tAJOloY ~ obQOm, strah oSibki, skuka?",
           "sdelaem <mikro-versiU na 5 minut>. s Cego naCnOSq prAmo segodnA?",
           "kogda postaviSq taYmer i gde zaYmOSqsA ~ ukaJi vremA.">>],
      [key |-> "focus", title |-> "fokus/reJim",
       re |-> {"fokus", "otrezki", "pomodor", "reJim raboty", "kontekst"},
       prompts |-> <<
           "esli pro fokus: kakoY slot segodnA samyY vaJnyY (30~50 minut)?",
           "kakie otvlekateli uberOm na vremA slota?",
           "Cto stanet konkretnym rezulqtatom slota?">>],
      [key |-> "exam", title |-> "Ekzamen/sessiA",
       re |-> {"Ekzam", "sess", "zaCet", "zaCOt", "test", "podgotov"},
       prompts |-> <<
           "esli pro Ekzamen: kakie temy kritiCnee vsego i na kakom ty urovne po kaJdoY (0~10)?",
           "Cto vyuCiSq do zavtra ~ minimum, no s zakrepleniem?",
           "kak proveriSq sebA (mini-test/voprosy) i kogda?">>]>>]
  >>

\* thousandths: INTENT_THRESHOLD = 0.35 and the scores of detect_intent
INTENT_THRESHOLD == 350
BASE_SCORE == 400
CHILD_SCORE == 550
EARLY_BONUS == 100
SCORE_CAP == 950
\* a match "near the start": m.start() < 10
EARLY_START == 10

\* INTENTS[intent], and sub in INTENTS[intent]["children"], children[sub];
\* the tables are sequences in declaration order, looked up by key
topic_in(T, intent) == T[CHOOSE i \in 1..Len(T) : T[i].key = intent]
has_child(children, sub) == \E j \in 1..Len(children) : children[j].key = sub
child_in(children, sub) == children[CHOOSE j \in 1..Len(children) : children[j].key = sub]
Topic(intent) == topic_in(INTENTS, intent)
IsChild(intent, sub) == has_child(Topic(intent).children, sub)
Child(intent, sub) == child_in(Topic(intent).children, sub)

\* the inner loop of detect_intent over one topic's children, from child j on;
\* best is (sub_key, score)
RECURSIVE child_best_from(_, _, _, _)
child_best_from(children, tl, j, best) ==
  IF j > Len(children) THEN best
  ELSE LET start == match_start(children[j].re, tl)
           score == CHILD_SCORE + (IF start < EARLY_START THEN EARLY_BONUS ELSE 0)
       IN IF start >= 0 /\ score > best[2]
          THEN child_best_from(children, tl, j + 1, <<children[j].key, Min({SCORE_CAP, score})>>)
          ELSE child_best_from(children, tl, j + 1, best)

RECURSIVE detect_from_last_wins(_, _, _)
RECURSIVE detect_from(_, _, _)

\* the outer loop with a later topic taking over at an equal score
detect_from_last_wins(tl, i, best) ==
  IF i > Len(INTENTS) THEN best
  ELSE LET spec == INTENTS[i]
           start == match_start(spec.re, tl)
           base_score == IF start >= 0
                         THEN BASE_SCORE + (IF start < EARLY_START THEN EARLY_BONUS ELSE 0)
                         ELSE 0
           child_best == child_best_from(spec.children, tl, 1, <<None, 0>>)
           score == Max({base_score, child_best[2]})
       IN IF child_best[2] > 0
          THEN IF score >= best[3]
               THEN detect_from_last_wins(tl, i + 1, <<spec.key, child_best[1], score>>)
               ELSE detect_from_last_wins(tl, i + 1, best)
          ELSE IF base_score > 0 /\ base_score >= best[3]
               THEN detect_from_last_wins(tl, i + 1, <<spec.key, None, base_score>>)
               ELSE detect_from_last_wins(tl, i + 1, best)

\* the outer loop of detect_intent, from topic i on; best is (intent, sub, score)
detect_from(tl, i, best) ==
  IF i > Len(INTENTS) THEN best
  ELSE LET spec == INTENTS[i]
           start == match_start(spec.re, tl)
           base_score == IF start >= 0
                         THEN BASE_SCORE + (IF start < EARLY_START THEN EARLY_BONUS ELSE 0)
                         ELSE 0
           child_best == child_best_from(spec.children, tl, 1, <<None, 0>>)
           score == Max({base_score, child_best[2]})
       IN IF child_best[2] > 0
          THEN IF score > best[3]
               THEN detect_from(tl, i + 1, <<spec.key, child_best[1], score>>)
               ELSE detect_from(tl, i + 1, best)
          ELSE IF base_score > 0 /\ base_score > best[3]
               THEN detect_from(tl, i + 1, <<spec.key, None, base_score>>)
               ELSE detect_from(tl, i + 1, best)

\* a classifier whose topic-only matches score below the threshold
detect_intent_weak_base(text) ==
  LET r == detect_from(text, 1, <<None, None, 0>>)
  IN IF r[1] # None /\ r[2] = None THEN <<r[1], None, r[3] - 200>> ELSE r

\* (intent, subintent, score); (None, None, 0) when nothing matches
detect_intent(text) == detect_from(text, 1, <<None, None, 0>>)

FALLBACK_PROMPTS ==
  << "sformuliruY, poJaluYsta, odin glavnyY vopros ili celq v EtoY teme.",
     "Cto v tvoeY zone kontrolA prAmo seYCas?",
     "kakoY malenqkiY Sag sdelaeSq segodnA?" >>

\* prompts[min(step, len(prompts)-1)], the list being 0-based in the source
topic_question(intent, sub, step) ==
  LET prompts == IF sub # None /\ IsChild(intent, sub)
                 THEN Child(intent, sub).prompts
                 ELSE FALLBACK_PROMPTS
  IN prompts[Min({step, Len(prompts) - 1}) + 1]

\* INTENTS[t]["children"][s]["title"] if s else INTENTS[t]["title"]
title_of(intent, sub) ==
  IF sub # None THEN Child(intent, sub).title ELSE Topic(intent).title

-----------------------------------------------------------------------------
\* Topic commands (main.py 477-502)

\* the character class [а-яa-zё\s\-] of the switch pattern
LabelChars == (WordChars \ {"0","1","2","3","4","5","6","7","8","9","_"}) \cup {" ", "-"}

IsLabelChar(s, i) == i >= 1 /\ i <= Len(s) /\ SubSeq(s, i, i) \in LabelChars
IsSpace(s, i) == i >= 1 /\ i <= Len(s) /\ SubSeq(s, i, i) = " "

\* the end of the longest run of characters satisfying the class from position i (i-1 if none)
RECURSIVE run_end(_, _)
run_end(s, i) == IF IsLabelChar(s, i) THEN run_end(s, i + 1) ELSE i - 1
RECURSIVE spaces_end(_, _)
spaces_end(s, i) == IF IsSpace(s, i) THEN spaces_end(s, i + 1) ELSE i - 1

\* str.strip() for the blank character
RECURSIVE Strip(_)
Strip(s) ==
  IF Len(s) = 0 THEN s
  ELSE IF SubSeq(s, 1, 1) = " " THEN Strip(SubSeq(s, 2, Len(s)))
  ELSE IF SubSeq(s, Len(s), Len(s)) = " " THEN Strip(SubSeq(s, 1, Len(s) - 1))
  ELSE s

SWITCH_PREFIXES == {"smenim pod-temu na", "smenim temu na", "davaY pro", "pogovorim pro", "hoCu pro"}

\* group(3) of the switch pattern matched with its prefix ending at position e:
\* \s+ takes the blanks, ([...]+) the rest of the run; when nothing follows the
\* blanks, \s+ gives its last blank back to the group.  "" when there is no match.
switch_group(t, e) ==
  LET b == spaces_end(t, e + 1)
      r == run_end(t, e + 1)
  IN IF b < e + 1 THEN ""
     ELSE IF r > b THEN SubSeq(t, b + 1, r)
     ELSE IF b > e + 1 THEN SubSeq(t, b, b)
     ELSE ""

\* the positions where the whole switch pattern matches
switch_positions(t) ==
  {i \in 1..Len(t) : \E p \in SWITCH_PREFIXES :
      Occurs(t, p, i) /\ switch_group(t, i + Len(p) - 1) # ""}

switch_label(t) ==
  LET i == Min(switch_positions(t))
      p == CHOOSE x \in SWITCH_PREFIXES :
             Occurs(t, x, i) /\ switch_group(t, i + Len(x) - 1) # ""
  IN Strip(switch_group(t, i + Len(p) - 1))

\* {"cmd": ..., "to": ...}; cmd is None when the text is no command
normalize_command(text) ==
  LET t == Strip(text)
  IN IF switch_positions(t) # {} THEN [cmd |-> "switch", to |-> switch_label(t)]
     ELSE IF re_search({"vernemsA k", "vernOmsA k"}, t) THEN [cmd |-> "back", to |-> ""]
     ELSE IF re_search({"sbros temy", "otmeni temu", "snAtq temu"}, t) THEN [cmd |-> "clear", to |-> ""]
     ELSE [cmd |-> None, to |-> ""]

\* lab.split(): the maximal blank-free pieces of lab
Words(lab) ==
  {SubSeq(lab, i, j) : <<i, j>> \in
     {p \in (1..Len(lab)) \X (1..Len(lab)) :
        /\ p[1] <= p[2]
        /\ \A k \in p[1]..p[2] : ~IsSpace(lab, k)
        /\ ~(p[1] > 1 /\ ~IsSpace(lab, p[1] - 1))
        /\ ~(p[2] < Len(lab) /\ ~IsSpace(lab, p[2] + 1))}}

\* lab in title or any(w and w in title for w in lab.split())
title_matches(lab, title) ==
  Contains(title, lab) \/ \E w \in Words(lab) : Contains(title, w)

\* the (topic, sub-topic) positions whose sub-topic title matches, and the
\* topic positions whose title matches
matching_subs(T, lab) ==
  {p \in (1..Len(T)) \X (1..Max({Len(T[i].children) : i \in 1..Len(T)})) :
     /\ p[2] <= Len(T[p[1]].children)
     /\ title_matches(lab, T[p[1]].children[p[2]].title)}
matching_tops(T, lab) == {i \in 1..Len(T) : title_matches(lab, T[i].title)}

\* the first match in declaration order: a sub-topic, else a topic, else (None, None)
first_match(T, subs, tops) ==
  IF subs # {}
  THEN LET i == Min({p[1] : p \in subs})
           j == Min({p[2] : p \in {x \in subs : x[1] = i}})
       IN <<T[i].key, T[i].children[j].key>>
  ELSE IF tops # {} THEN <<T[Min(tops)].key, None>>
  ELSE <<None, None>>

resolve_in(T, lab) == first_match(T, matching_subs(T, lab), matching_tops(T, lab))

\* (intent, subintent) of a label
resolve_to_intent(label) == resolve_in(INTENTS, Strip(label))

-----------------------------------------------------------------------------
\* Quality gate (main.py 505-512)

QUALITY_MIN_LEN == 90
QUALITY_MAX_LEN == 500

\* a gate without its minimum length
quality_ok_any_length(s) ==
  /\ ~re_search(STOP, s)
  /\ Len(s) <= QUALITY_MAX_LEN
  /\ Contains(s, "?")
  /\ re_search({"slySu", "viJu", "ponimaU", "rAdom", "vaJno", "davaY", "gotova", "predlagaU"}, s)

quality_ok(s) ==
  /\ ~re_search(STOP, s)
  /\ Len(s) >= QUALITY_MIN_LEN
  /\ Len(s) <= QUALITY_MAX_LEN
  /\ Contains(s, "?")
  /\ re_search({"slySu", "viJu", "ponimaU", "rAdom", "vaJno", "davaY", "gotova", "predlagaU"}, s)

-----------------------------------------------------------------------------
\* the values of dialog_events.mi_phase
Phases == {"engage", "focus", "evoke", "plan", "support"}

\* The user texts of the model (message.text, stripped):
\*   no text, "/start", "1", "2",
\*   crisis only; crisis and sensitive; sensitive only;
\*   crisis inside a switch command; crisis with a mood intent; sensitive inside a switch command;
\*   switch to a topic; switch to a sub-topic; switch to nothing known; go back; clear;
\*   a finance/debt intent; a relations/partner_conflict intent;
\*   two texts with profile cues; a tense text with a mood intent;
\*   a text of fear; two topics with equal scores; two sub-topics with equal scores;
\*   a topic word late in the text; a calm text with a plan word
Texts ==
  {"", "/start", "1", "2",
   "ne hoCu Jitq", "suicid", "politika",
   "davaY pro son ne hoCu Jitq", "panika otCaAnie", "davaY pro religiU",
   "davaY pro finansy", "davaY pro son", "davaY pro pogodu", "vernOmsA k proSloY teme", "sbros temy",
   "kredit", "ssora s muJem",
   "planiruU vstreCi", "hoCu tiSiny i spontannosti", "ustala, ne znaU",
   "mne straSno", "kredit, son", "bUdJet, dolg",
   "segodnA pro denqgi", "legko, naCnu"}

\* the texts of the model of the webhook of api/routes/telegram.py: the humor toggle alone, with "on", and
\* with a crisis text; a humor phrase with a crisis text and alone; crisis;
\* crisis and sensitive; sensitive; the reset command; a name; answers; a remark
RoutesTexts ==
  {"", "/humor", "/humor on", "/humor ne hoCu Jitq",
   "poSuti, ne hoCu Jitq", "nemnogo Umora",
   "ne hoCu Jitq", "suicid", "politika",
   "/start", "anA", "1", "2", "ustala, ne znaU"}

\* the functions of the text alone, evaluated once per text
\* what a user sends in a long talk after the questionnaire: a text with two
\* profile cues (judging down, extraversion up), the reset command, no text
TalkTexts == {"spontannye vstreCi", "/start", ""}

text_facts[t \in Texts \cup RoutesTexts \cup TalkTexts] ==
  LET cmd == normalize_command(t)
  IN [crisis    |-> crisis_detect(t),
      stop      |-> re_search(STOP, t),
      cmd       |-> cmd,
      target    |-> IF cmd.cmd = "switch" THEN resolve_to_intent(cmd.to) ELSE <<None, None>>,
      emotion   |-> detect_emotion(t),
      reflect   |-> reflect_emotion(t),
      relevance |-> classify_relevance(t),
      intent    |-> detect_intent(t),
      phase     |-> [last_phase \in Phases |-> choose_phase(last_phase, detect_emotion(t), t)]]


-----------------------------------------------------------------------------
\* The store of main.py, as one value d = [user_profile, app_state,
\* psycho_profile, dialog_events], so that the statements of a handler compose
\* in program order.  The model follows one user (one chat id).

ensure_user(d) == [d EXCEPT !.user_profile = TRUE]

\* facts["app_state"], {} when there is no row or no facts
app_state_get(d) == IF d.user_profile THEN d.app_state ELSE EmptyDict

\* read facts, st.update(patch), write facts back (an UPDATE: no row, no effect)
app_state_set(d, patch) ==
  IF d.user_profile THEN [d EXCEPT !.app_state = Update(d.app_state, patch)] ELSE d

\* INSERT INTO dialog_events: the table is only ever read for its newest row
insert_event(d, row) == [d EXCEPT !.dialog_events = [n |-> @.n + 1, last |-> row]]

\* the questionnaire started at its second question
kno_start_at_second(d) == app_state_set(d, [kno_idx |-> 1, kno_answers |-> EmptyDict])

\* lines 100-101
kno_start(d) == app_state_set(d, [kno_idx |-> 0, kno_answers |-> EmptyDict])

\* axes[a if v==1 else b] += 1 over the answers: the tally of one letter
tally(answers, letter) ==
  Cardinality({k \in DOMAIN answers :
                 (IF answers[k] = 1 THEN KNO_MAP[k][1] ELSE KNO_MAP[k][2]) = letter})

\* a share of all the questions rather than of the axis' own
norm_by_questions(a, b) == (a * ONE) \div Len(KNO)

\* norm(a,b)[0] = a/((a+b) or 1)
norm(a, b) == (a * ONE) \div (IF a + b = 0 THEN 1 ELSE a + b)

\* the INSERT ... ON CONFLICT (user_id) DO UPDATE of kno_step
upsert_profile(d, E, N, T, J) ==
  IF d.psycho_profile = NoRow
  THEN [d EXCEPT !.psycho_profile =
          [ei |-> E, sn |-> N, tf |-> T, jp |-> J, confidence |-> KNO_CONFIDENCE,
           mbti_type |-> None, anchors |-> <<>>]]
  ELSE [d EXCEPT !.psycho_profile =
          [@ EXCEPT !.ei = E, !.sn = N, !.tf = T, !.jp = J, !.confidence = KNO_CONFIDENCE]]

\* lines 132-143: the profile of the finished questionnaire is stored
kno_profile(d, answers) ==
  upsert_profile(d, norm(tally(answers, "E"), tally(answers, "I")),
                    norm(tally(answers, "N"), tally(answers, "S")),
                    norm(tally(answers, "T"), tally(answers, "F")),
                    norm(tally(answers, "J"), tally(answers, "P")))

\* lines 131-148, given the index after idx += 1 and the answers after
\* answers[key] = choice
kno_record(d, idx, answers) ==
  IF idx >= Len(KNO)
  THEN [d |-> app_state_set(kno_profile(d, answers),
                [kno_done |-> TRUE, kno_idx |-> NoneInt, kno_answers |-> answers]),
        ret |-> None, raised |-> FALSE]
  ELSE [d |-> app_state_set(d, [kno_idx |-> idx, kno_answers |-> answers]),
        ret |-> KNO[idx + 1].text, raised |-> FALSE]

\* the choice recorded alone, the earlier answers dropped
kno_answer_alone(idx, answers, text) ==
  KNO[idx + 1].key :> pick_by_keywords(KNO[idx + 1].key, Strip(text))

\* lines 127-129, given idx and answers read from the state: the answers
\* with the choice for question idx
kno_answer(idx, answers, text) ==
  Update(answers, KNO[idx + 1].key :> pick_by_keywords(KNO[idx + 1].key, Strip(text)))

\* kno_step: [d |-> the store after, ret |-> the next question or None,
\* raised |-> TRUE when KNO[idx] raises (idx is None or past the last question)];
\* the answers are computed once, as the assignment of line 129 does
kno_step(d, text) ==
  LET st == app_state_get(d)
      idx == Get(st, "kno_idx", 0)
  IN IF idx = NoneInt \/ idx >= Len(KNO)
     THEN [d |-> d, ret |-> None, raised |-> TRUE]
     ELSE CHOOSE r \in {kno_record(d, idx + 1, answers) :
                          answers \in {kno_answer(idx, Get(st, "kno_answers", EmptyDict), text)}} :
            TRUE

\* the row INSERT INTO psycho_profile(user_id) creates; the table's column
\* defaults are not part of the source: neutral axes, zero confidence
DEFAULT_PROFILE ==
  [ei |-> HALF, sn |-> HALF, tf |-> HALF, jp |-> HALF, confidence |-> 0,
   mbti_type |-> None, anchors |-> <<>>]

\* anc[-50:]
LastN(s, n) == IF Len(s) <= n THEN s ELSE SubSeq(s, Len(s) - n + 1, Len(s))

\* a row created anew on every call, the test for an existing row lost
profile_row_reinserted(d) == [ensure_user(d) EXCEPT !.psycho_profile = DEFAULT_PROFILE]

\* lines 171-174: the user's row, created when there is none
profile_row(d) ==
  IF d.psycho_profile = NoRow
  THEN [ensure_user(d) EXCEPT !.psycho_profile = DEFAULT_PROFILE]
  ELSE d

\* the confidence step without its cap
confidence_uncapped(conf, delta) ==
  conf + (IF delta # EmptyDict THEN CONF_STEP ELSE 0)

\* line 181: min(0.99, confidence + (0.02 if delta else 0.0))
confidence_after(conf, delta) ==
  Min({CONF_CAP, conf + (IF delta # EmptyDict THEN CONF_STEP ELSE 0)})

\* lines 175-185, given the row p read at line 171 or 174
updated_row(p, delta, anchors, conf) ==
  LET ei == IF "ei" \in DOMAIN delta THEN ewma(p.ei, delta.ei) ELSE p.ei
      sn == IF "sn" \in DOMAIN delta THEN ewma(p.sn, delta.sn) ELSE p.sn
      tf == IF "tf" \in DOMAIN delta THEN ewma(p.tf, delta.tf) ELSE p.tf
      jp == IF "jp" \in DOMAIN delta THEN ewma(p.jp, delta.jp) ELSE p.jp
  IN [ei |-> ei, sn |-> sn, tf |-> tf, jp |-> jp, confidence |-> conf,
      mbti_type |-> IF conf >= REVEAL THEN to_mbti(ei, sn, tf, jp) ELSE None,
      anchors |-> LastN(p.anchors \o anchors, ANCHORS_KEPT)]

\* the row of d, rewritten
with_row(d, delta, anchors) ==
  [d EXCEPT !.psycho_profile =
     updated_row(@, delta, anchors, confidence_after(@.confidence, delta))]

update_profile(d, delta, anchors) == with_row(profile_row(d), delta, anchors)

-----------------------------------------------------------------------------
\* Fixed replies (main.py 533-603, 641-680)

CRISIS_REPLY ==
  "A rAdom i slySu tvoU bolq. esli nuJna sroCnaA podderJka ~ napiSi blizkim ili obratisq v gorACuU liniU. Cto seYCas bylo by samym podderJivaUWim?"
STOP_REPLY ==
  "davaY ostavim Cuvstvitelqnye temy za ramkami. o COm tebe vaJnee pogovoritq seYCas?"
CLARIFY_REPLY ==
  "utoCni, poJaluYsta: rabota, otnoSeniA, zdorovqe, nastroenie, finansy ili uCOba/produktivnostq (moJno s pod-temoY)."
NO_BACK_REPLY ==
  "poka ne k Cemu vozvraWatqsA ~ tema ne menAlasq. o COm prodolJim?"
CLEAR_REPLY ==
  "snAla fiksaciU temy. vybiraY novuU ~ <davaY pro _>."
INTRO ==
  "privet * A anima ~ tvoY liCnyY psihologiCeskiY assistent. pomogaU navesti Asnostq, snizitq stress i nametitq Sagi vperOd. razgovory konfidencialqny, nikakogo spama ~ tolqko podderJka *||poehali? otveCaY cifroY 1 ili 2, moJno svoimi slovami *"
ANSWER_HINT ==
  "||otvetq 1 ili 2, moJno slovami."
FALLBACK_REPLY ==
  "slySu tebA. Cto zdesq dlA tebA glavnoe?"
DRAFT_MBTI ==
  "CernovoY profilq utoCnitsA"

switch_reply(intent, sub) ==
  "okeY, pereklUCaUsq na <" \o title_of(intent, sub) \o ">. " \o topic_question(intent, sub, 0)

back_reply(bt, bs) ==
  "vernOmsA k <" \o title_of(bt, bs) \o ">. " \o topic_question(bt, bs, 0)

redirect_reply(topic, sub) ==
  "slySu tebA * kaJetsA, my Cutq uSli v storonu. davaY snaCala zaverSim razgovor o <"
    \o title_of(topic, sub)
    \o ">. esli zahoCeSq smenitq pod-temu ~ skaJi <smenim pod-temu na _>."

\* int(confidence * 100) and the label, in the summary that ends the questionnaire
summary_reply(prof) ==
  "spasibo, A luCSe ponimaU, kak s toboY govoritq *|poka Eto CernovoY profilq: "
    \o (IF prof.mbti_type # None THEN prof.mbti_type ELSE DRAFT_MBTI)
    \o ". toCnostq budet rasti po hodu dialoga (="
    \o ToString((prof.confidence * 100) \div ONE)
    \o "%).||rasskaJi korotko ~ s Cem hoCeSq segodnA porabotatq ili o COm pogovoritq?"

topic_draft(reflection, topic, sub, step) ==
  reflection \o "prodolJim <" \o title_of(topic, sub) \o ">. "
    \o topic_question(topic, sub, step)

topic_plain(topic, sub, step) ==
  "prodolJim <" \o title_of(topic, sub) \o ">. " \o topic_question(topic, sub, step)

guess_draft(reflection, intent, sub) ==
  reflection \o "pohoJe, reCq pro <" \o title_of(intent, sub) \o ">. "
    \o "naCnOm s prostogo: " \o topic_question(intent, sub, 0)
    \o " esli Eto ne to ~ skaJi <smenim pod-temu na _>."

\* every draft a reply path can compose, and quality_ok of each, evaluated
\* once per draft
TopicPairs ==
  {<<INTENTS[i].key, None>> : i \in DOMAIN INTENTS}
    \cup UNION {{<<INTENTS[i].key, INTENTS[i].children[j].key>> :
                    j \in DOMAIN INTENTS[i].children} : i \in DOMAIN INTENTS}
Reflections == {REFLECT_TENSE, REFLECT_CALM, REFLECT_UNCERTAIN, REFLECT_NEUTRAL}
Styles == [tone : {"aktivnyY", "spokoYnyY"}, detail : {"smysly", "Sagi"},
           mind : {"analiz", "Cuvstva"}, plan : {"plan", "Eksperiment"}]
Drafts ==
  {topic_draft(r, p[1], p[2], step) : r \in Reflections, p \in TopicPairs,
                                      step \in 0..(Len(FALLBACK_PROMPTS) - 1)}
    \cup {guess_draft(r, p[1], p[2]) : r \in Reflections, p \in TopicPairs}
    \cup {r \o open_question(phase, style) : r \in Reflections, phase \in Phases,
                                             style \in Styles}

draft_facts[s \in Drafts] == quality_ok(s)

-----------------------------------------------------------------------------
\* The webhook of main.py (519-689)

\* text.lower() in ("/start","старт","начать")
\* a reset test that also takes a message without text
is_reset_or_empty(text) == text \in {"", "/start", "start", "naCatq"}

is_reset(text) == text \in {"/start", "start", "naCatq"}

\* what a call did: the store it leaves, the branch it took, the texts it
\* passed to tg_send, and its response ("ok" is {"ok": True}, "error" an
\* uncaught exception, answered 500)
Outcome(d, branch, sent, response) ==
  [d |-> d, branch |-> branch, sent |-> sent, response |-> response]

\* await tg_send(chat_id, reply), with the store `before` it and the store
\* `after` the statements that follow it.  tg_send of main.py does not catch
\* the transport's exception: when the send fails the handler ends there.
send_then(net, branch, before, reply, after) ==
  IF net = "ok" THEN Outcome(after, branch, <<reply>>, "ok")
  ELSE Outcome(before, branch, <<reply>>, "error")

on_crisis(d, net) ==
  send_then(net, "crisis", d, CRISIS_REPLY,
    insert_event(d, [role |-> "assistant", text |-> CRISIS_REPLY, mi_phase |-> "support",
                     emotion |-> "tense", relevance |-> FALSE, topic |-> "mood",
                     axes |-> [subtopic |-> "anxiety"]]))

\* a deflection that also lets go of the current topic
on_stop_drops_topic(d, net) ==
  send_then(net, "stop", d, STOP_REPLY,
    insert_event(app_state_set(d, [topic |-> None, subtopic |-> None, topic_locked |-> FALSE]),
                 [role |-> "assistant", text |-> STOP_REPLY, mi_phase |-> "engage",
                  emotion |-> "neutral", relevance |-> FALSE]))

on_stop(d, net) ==
  send_then(net, "stop", d, STOP_REPLY,
    insert_event(d, [role |-> "assistant", text |-> STOP_REPLY, mi_phase |-> "engage",
                     emotion |-> "neutral", relevance |-> FALSE]))

\* lines 557-559 and 566-568: the reply is sent and logged; d is the store
\* after app_state_set
switched(d, branch, reply, topic, sub, net) ==
  send_then(net, branch, d, reply,
    insert_event(d, [role |-> "assistant", text |-> reply, mi_phase |-> "focus",
                     topic |-> topic, axes |-> [subtopic |-> sub]]))

\* lines 549-559, given the topic and sub-topic the label resolved to
on_switch(d, st, intent, sub, net) ==
  IF intent = None /\ sub = None
  THEN send_then(net, "switch_unknown", d, CLARIFY_REPLY, d)
  ELSE switched(app_state_set(d, [topic |-> intent, subtopic |-> sub, topic_step |-> 0,
                                  topic_locked |-> TRUE,
                                  prev_topic |-> Get(st, "topic", None),
                                  prev_subtopic |-> Get(st, "subtopic", None)]),
                "switch", switch_reply(intent, sub), intent, sub, net)

\* a go-back that stores the topic it leaves, so that history is a toggle
on_back_keeps_history(d, bt, bs, net) ==
  IF bt # None
  THEN switched(app_state_set(d, [topic |-> bt, subtopic |-> bs, topic_step |-> 0,
                                  topic_locked |-> TRUE,
                                  prev_topic |-> Get(app_state_get(d), "topic", None),
                                  prev_subtopic |-> Get(app_state_get(d), "subtopic", None)]),
                "back", back_reply(bt, bs), bt, bs, net)
  ELSE send_then(net, "back_nothing", d, NO_BACK_REPLY, d)

\* lines 560-570, given the previous topic and sub-topic
on_back(d, bt, bs, net) ==
  IF bt # None
  THEN switched(app_state_set(d, [topic |-> bt, subtopic |-> bs, topic_step |-> 0,
                                  topic_locked |-> TRUE, prev_topic |-> None,
                                  prev_subtopic |-> None]),
                "back", back_reply(bt, bs), bt, bs, net)
  ELSE send_then(net, "back_nothing", d, NO_BACK_REPLY, d)

\* lines 571-574
on_clear(d, net) == send_then(net, "clear", d, CLEAR_REPLY, d)

\* the topic commands (544-574); f is text_facts of the text, st the state
\* read at line 547
on_command(d, f, net) ==
  IF f.cmd.cmd = "switch"
  THEN on_switch(d, app_state_get(d), f.target[1], f.target[2], net)
  ELSE IF f.cmd.cmd = "back"
  THEN on_back(d, Get(app_state_get(d), "prev_topic", None),
               Get(app_state_get(d), "prev_subtopic", None), net)
  ELSE on_clear(app_state_set(d, [topic_locked |-> FALSE]), net)

\* the summary with the topic reset and the lock left as it was
send_summary_keeps_lock(d, reply, net) ==
  send_then(net, "kno_done", d, reply,
    app_state_set(
      insert_event(d, [role |-> "assistant", text |-> reply, mi_phase |-> "engage"]),
      [topic |-> None, subtopic |-> None, topic_step |-> 0]))

\* lines 596-599: the summary is sent and logged, the topic fields are reset
send_summary(d, reply, net) ==
  send_then(net, "kno_done", d, reply,
    app_state_set(
      insert_event(d, [role |-> "assistant", text |-> reply, mi_phase |-> "engage"]),
      [topic |-> None, subtopic |-> None, topic_step |-> 0, topic_locked |-> FALSE]))

\* lines 589-603, given what kno_step returned
after_kno_step(r, net) ==
  IF r.raised THEN Outcome(r.d, "kno_raised", <<>>, "error")
  ELSE IF r.ret = None
  THEN send_summary(r.d, summary_reply(r.d.psycho_profile), net)
  ELSE send_then(net, "kno_answer", r.d, r.ret \o ANSWER_HINT,
         insert_event(r.d, [role |-> "assistant", text |-> r.ret, mi_phase |-> "engage"]))

\* lines 580-586, after kno_start
on_kno_start(d, net) ==
  send_then(net, "kno_start", d, INTRO \o "||" \o KNO[1].text,
    insert_event(d, [role |-> "assistant", text |-> INTRO, mi_phase |-> "engage"]))

\* the onboarding branch (576-603); st is the state read at line 577;
\* kno_step is called once and its result kept (line 588)
on_onboarding(d, st, text, net) ==
  IF Get(st, "kno_idx", NoneInt) = NoneInt /\ ~Get(st, "kno_done", FALSE)
  THEN on_kno_start(kno_start(d), net)
  ELSE CHOOSE o \in {after_kno_step(r, net) : r \in {kno_step(d, text)}} : TRUE
\* the quality gate of a reply path: the draft, or what replaces it
gate(draft, otherwise) == IF draft_facts[draft] THEN draft ELSE otherwise

\* lines 658-667: a normal step on the current topic, given the draft
topic_turn(d, text, f, topic, sub, step, phase, draft, net) ==
  send_then(net, "topic_step", d, draft,
    app_state_set(
      insert_event(
        insert_event(d, [role |-> "user", text |-> text, mi_phase |-> phase,
                         emotion |-> f.emotion, relevance |-> f.relevance.rel,
                         axes |-> Update(IF f.relevance.rel THEN f.relevance.axes
                                         ELSE EmptyDict,
                                         [subtopic |-> sub]),
                         topic |-> topic]),
        [role |-> "assistant", text |-> draft, mi_phase |-> phase, emotion |-> f.emotion,
         relevance |-> f.relevance.rel, topic |-> topic, axes |-> [subtopic |-> sub]]),
      [topic_step |-> step + 1]))

\* lines 638-645: the reminder that the talk left the topic; d is the store
\* after topic_reminded was set
redirect(d, reply, topic, sub, net) ==
  send_then(net, "redirect", d, reply,
    insert_event(d, [role |-> "assistant", text |-> reply, mi_phase |-> "focus",
                     topic |-> topic, axes |-> [subtopic |-> sub]]))

\* lines 636-667: the reply on the current topic
on_topic(d, st, text, f, topic, sub, step, phase, net) ==
  IF /\ \/ (f.intent[1] # None /\ f.intent[1] # topic)
        \/ (sub # None /\ f.intent[2] # None /\ f.intent[2] # sub)
     /\ ~Get(st, "topic_reminded", FALSE)
  THEN redirect(app_state_set(d, [topic_reminded |-> TRUE]), redirect_reply(topic, sub),
                topic, sub, net)
  ELSE topic_turn(app_state_set(d, [topic_reminded |-> FALSE]), text, f, topic, sub, step,
                  phase,
                  gate(topic_draft(f.reflect, topic, sub, step), topic_plain(topic, sub, step)),
                  net)

\* lines 679-689: no topic yet, given the draft
no_topic_turn(d, text, f, phase, draft, net) ==
  send_then(net, "no_topic", d, draft,
    insert_event(
      insert_event(d, [role |-> "user", text |-> text, mi_phase |-> phase,
                       emotion |-> f.emotion, relevance |-> f.relevance.rel,
                       axes |-> IF f.relevance.rel THEN f.relevance.axes ELSE EmptyDict]),
      [role |-> "assistant", text |-> draft, mi_phase |-> phase, emotion |-> f.emotion,
       relevance |-> f.relevance.rel,
       axes |-> [suggested_intent |-> f.intent[1], subtopic |-> f.intent[2],
                 score |-> f.intent[3]]]))

\* lines 669-689: the best guess when there is no topic
on_no_topic(d, text, f, phase, net) ==
  no_topic_turn(
    IF f.intent[1] # None /\ f.intent[3] >= INTENT_THRESHOLD
    THEN app_state_set(d, [topic |-> f.intent[1], subtopic |-> f.intent[2], topic_step |-> 1])
    ELSE d,
    text, f, phase,
    gate(IF f.intent[1] # None /\ f.intent[3] >= INTENT_THRESHOLD
         THEN guess_draft(f.reflect, f.intent[1], f.intent[2])
         ELSE personalized_reply(d.psycho_profile, f.reflect, phase),
         FALLBACK_REPLY),
    net)

\* lines 624-689, given the state st read at line 611, the current topic,
\* sub-topic and step after lines 619-622, and the phase choose_phase returns
reply_turn(d, st, text, f, topic, sub, step, phase, net) ==
  IF topic # None THEN on_topic(d, st, text, f, topic, sub, step, phase, net)
  ELSE on_no_topic(d, text, f, phase, net)

\* the newest row of dialog_events (624) and the phase (650, 670)
phase_after(d, f) ==
  f.phase[IF d.dialog_events.n > 0 THEN d.dialog_events.last.mi_phase ELSE "engage"]

\* lines 610-622, given the state st read at line 611: a detected intent is
\* adopted unless the topic is locked
\* a detected intent adopted whether or not the topic is locked
adopts_when_locked(st, f) == f.intent[1] # None /\ f.intent[3] >= INTENT_THRESHOLD

adopts(st, f) ==
  ~Get(st, "topic_locked", FALSE) /\ f.intent[1] # None /\ f.intent[3] >= INTENT_THRESHOLD

adopt_intent(d, st, text, f, net) ==
  reply_turn(IF adopts(st, f)
             THEN app_state_set(d, [topic |-> f.intent[1], subtopic |-> f.intent[2],
                                    topic_step |-> 0])
             ELSE d,
             st, text, f,
             IF adopts(st, f) THEN f.intent[1] ELSE Get(st, "topic", None),
             IF adopts(st, f) THEN f.intent[2] ELSE Get(st, "subtopic", None),
             IF adopts(st, f) THEN 0 ELSE Get(st, "topic_step", 0),
             phase_after(d, f), net)

\* lines 605-611, given the store after update_profile
profiled(d, text, f, net) == adopt_intent(d, app_state_get(d), text, f, net)

\* the free dialogue after the questionnaire (605-689)
on_dialogue(d, text, f, net) ==
  profiled(IF f.relevance.rel THEN update_profile(d, f.relevance.axes, f.relevance.anchors)
           ELSE d,
           text, f, net)

\* the handling of a text with the commands ahead of the safety checks
on_text_commands_first(d, text, f, net) ==
  IF f.cmd.cmd # None THEN on_command(d, f, net)
  ELSE IF f.crisis THEN on_crisis(d, net)
  ELSE IF f.stop THEN on_stop(d, net)
  ELSE IF is_reset(text) \/ ~Get(app_state_get(d), "kno_done", FALSE)
  THEN on_onboarding(d, app_state_get(d), text, net)
  ELSE on_dialogue(d, text, f, net)

\* lines 531-689: the handling of a message's text, the user's row ensured;
\* f is text_facts of the text
on_text(d, text, f, net) ==
  IF f.crisis THEN on_crisis(d, net)
  ELSE IF f.stop THEN on_stop(d, net)
  ELSE IF f.cmd.cmd # None THEN on_command(d, f, net)
  ELSE IF is_reset(text) \/ ~Get(app_state_get(d), "kno_done", FALSE)
  THEN on_onboarding(d, app_state_get(d), text, net)
  ELSE on_dialogue(d, text, f, net)

\* lines 524-529: the text is read and stripped, the user's row ensured
on_message(d0, text, net) == on_text(ensure_user(d0), text, text_facts[text], net)

\* POST /webhook/telegram: update = [update_id, message]; a message is a
\* dictionary, empty when the update carries none
webhook(d0, update, net) ==
  IF update.message = EmptyDict THEN Outcome(d0, "no_message", <<>>, "ok")
  ELSE on_message(d0, Strip(Get(update.message, "text", "")), net)

-----------------------------------------------------------------------------
\* Deliveries to the webhook of main.py.  Telegram numbers its updates in
\* sequence and delivers an update again when the webhook did not
\* acknowledge it; the handlers of one user run one at a time.

\* updates delivered in one run, and deliveries of one update
MaxUpdateId == 2
MaxAttempts == 2
\* updates delivered in one run of the questionnaire
MaxAnswers == 8
\* updates delivered in one run of a long talk
MaxTalk == 32

\* the one chat of the model
CHAT_ID == 1

TextMessage(t) == [chat_id |-> CHAT_ID, text |-> t]

\* update.message: none, a message without text (a sticker), a text; one
\* text arrives with the whitespace that text.strip() removes
Messages ==
  {EmptyDict, [chat_id |-> CHAT_ID]}
    \cup {TextMessage(t) : t \in (Texts \ {""}) \cup {" 2 "}}

\* what a user sends while answering the questionnaire: digits, words the
\* keyword rules know, words they do not know, a sticker
KnoMessages ==
  {[chat_id |-> CHAT_ID]}
    \cup {TextMessage(t) : t \in {"/start", "1", "2", " 2 ", "hoCu tiSiny i spontannosti",
                                  "ustala, ne znaU"}}

\* the transport of tg_send: the request succeeds or raises
Nets == {"ok", "fail"}

\* the store before any request: no row of any table
FRESH ==
  [user_profile |-> FALSE, app_state |-> EmptyDict, psycho_profile |-> NoRow,
   dialog_events |-> [n |-> 0, last |-> NoRow]]

\* the store after the webhook has handled the texts of a script, in order
RECURSIVE run_from(_, _, _)
run_from(d, script, i) ==
  IF i > Len(script) THEN d
  ELSE run_from(webhook(d, [update_id |-> i, message |-> TextMessage(script[i])], "ok").d,
                script, i + 1)

ANSWERS == <<"/start", "1", "2", "1", "1", "2", "1">>

\* The stores a run starts in, each the store the webhook leaves after a
\* conversation: a new user; the questionnaire at its first, fourth and last
\* question; the questionnaire complete; then a topic adopted by the
\* classifier, a topic locked by a command, a second topic locked over the
\* first, a profile moved by a cue, and a locked topic with its reminder given.
Scripts ==
  {<<>>,
   SubSeq(ANSWERS, 1, 1),
   SubSeq(ANSWERS, 1, 4),
   SubSeq(ANSWERS, 1, 6),
   ANSWERS,
   ANSWERS \o <<"kredit">>,
   ANSWERS \o <<"davaY pro finansy">>,
   ANSWERS \o <<"davaY pro finansy", "davaY pro son">>,
   ANSWERS \o <<"planiruU vstreCi">>,
   ANSWERS \o <<"davaY pro finansy", "ssora s muJem">>}

Stores == {run_from(FRESH, s, 1) : s \in Scripts}

store == [user_profile |-> user_profile, app_state |-> app_state,
          psycho_profile |-> psycho_profile, dialog_events |-> dialog_events]

\* one call of the webhook, from its first line to its response
Handle(update, attempt, net) ==
  \E o \in {webhook(store, update, net)} :
     /\ user_profile' = o.d.user_profile
     /\ app_state' = o.d.app_state
     /\ psycho_profile' = o.d.psycho_profile
     /\ dialog_events' = o.d.dialog_events
     /\ call' = [update |-> update, attempt |-> attempt, net |-> net, branch |-> o.branch,
                 sent |-> o.sent, response |-> o.response,
                 inserted |-> o.d.dialog_events.n - dialog_events.n]
     /\ UNCHANGED <<db_vars, routes_vars, race_vars>>

\* a new update arrives
Deliver ==
  /\ call.update.update_id < MaxUpdateId
  /\ \E m \in Messages, net \in Nets :
       Handle([update_id |-> call.update.update_id + 1, message |-> m], 1, net)

\* the last update arrives again
Redeliver ==
  /\ call.attempt >= 1
  /\ call.attempt < MaxAttempts
  /\ \E net \in Nets : Handle(call.update, call.attempt + 1, net)

\* a new update arrives from a user who is answering the questionnaire
Answer ==
  /\ call.update.update_id < MaxAnswers
  /\ \E m \in KnoMessages, net \in Nets :
       Handle([update_id |-> call.update.update_id + 1, message |-> m], 1, net)

\* the questionnaire answered the other way: 2, 1, 2, 2, 1, 2
ANSWERS_2 == <<"/start", "2", "1", "2", "2", "1", "2">>

\* the stores a long talk starts in: the questionnaire complete, with the
\* axes at (1, 1, 1, 0.5) and at (0, 0, 0, 0.5)
TalkStores == {run_from(FRESH, s, 1) : s \in {ANSWERS, ANSWERS_2}}

\* a new update arrives from a user who has completed the questionnaire
Talk ==
  /\ call.update.update_id < MaxTalk
  /\ \E t \in TalkTexts, net \in Nets :
       Handle([update_id |-> call.update.update_id + 1,
               message |-> IF t = "" THEN [chat_id |-> CHAT_ID] ELSE TextMessage(t)], 1, net)

\* no call yet; update ids are counted from the start of the run
NoCall ==
  [update |-> [update_id |-> 0, message |-> EmptyDict], attempt |-> 0, net |-> "ok",
   branch |-> "none", sent |-> <<>>, response |-> "none", inserted |-> 0]

MainStarts(d) ==
  /\ user_profile = d.user_profile
  /\ app_state = d.app_state
  /\ psycho_profile = d.psycho_profile
  /\ dialog_events = d.dialog_events
  /\ call = NoCall

-----------------------------------------------------------------------------
\* api/db.py: the idempotency primitive

\* callers of mark_update_processed in one run, and the update ids they pass
MaxCallers == 4
MaxDbUpdateId == 2

\* the command tags PostgreSQL answers an INSERT with
INSERTED == "INSERT 0 1"
IGNORED == "INSERT 0 0"

\* str.endswith
EndsWith(s, suffix) ==
  /\ Len(s) >= Len(suffix)
  /\ SubSeq(s, Len(s) - Len(suffix) + 1, Len(s)) = suffix

\* the INSERT without its conflict clause, answered as an insert every time
insert_update_always(table, update_id) ==
  [table |-> table \cup {update_id}, status |-> INSERTED]

\* INSERT INTO processed_updates(update_id) VALUES($1) ON CONFLICT DO NOTHING:
\* one statement, atomic in the database
insert_update(table, update_id) ==
  [table |-> table \cup {update_id},
   status |-> IF update_id \in table THEN IGNORED ELSE INSERTED]

\* mark_update_processed, run to its end by one caller with the database up
mark_update_processed(table, update_id) ==
  LET r == insert_update(table, update_id)
  IN [table |-> r.table, ret |-> EndsWith(r.status, " 1")]

\* a caller enters mark_update_processed(u)
Call ==
  /\ Len(callers) < MaxCallers
  /\ \E u \in 1..MaxDbUpdateId :
       callers' = Append(callers, [update_id |-> u, pc |-> "execute", status |-> None,
                                   ret |-> FALSE])
  /\ UNCHANGED <<processed_updates, main_vars, routes_vars, race_vars>>

\* await execute(...): the statement runs
Execute ==
  \E i \in DOMAIN callers :
    /\ callers[i].pc = "execute"
    /\ \E r \in {insert_update(processed_updates, callers[i].update_id)} :
         /\ processed_updates' = r.table
         /\ callers' = [callers EXCEPT ![i].pc = "return", ![i].status = r.status]
    /\ UNCHANGED <<main_vars, routes_vars, race_vars>>

\* _pool() or pool.acquire() raises: the statement never runs
Unavailable ==
  \E i \in DOMAIN callers :
    /\ callers[i].pc = "execute"
    /\ callers' = [callers EXCEPT ![i].pc = "raised"]
    /\ UNCHANGED <<processed_updates, main_vars, routes_vars, race_vars>>

\* return status.endswith(" 1")
Return ==
  \E i \in DOMAIN callers :
    /\ callers[i].pc = "return"
    /\ callers' = [callers EXCEPT ![i].pc = "done",
                                  ![i].ret = EndsWith(callers[i].status, " 1")]
    /\ UNCHANGED <<processed_updates, main_vars, routes_vars, race_vars>>

-----------------------------------------------------------------------------
\* api/routes/telegram.py: the webhook of the router.  Its store is kept as
\* one value rd = [user, state, events, table]: the user's row, the user's
\* app state, the number of logged events, the processed_updates table.
\* The Latin letters of its commands ("/humor", "on", "/start") are written
\* as they are; no text of RoutesTexts holds a Cyrillic letter whose
\* transliteration would make one of them appear.

WEBHOOK_SECRET == "secret"
NAME_MAX == 40

R_HUMOR_ON == "Umor vklUCOn *"
R_HUMOR_OFF == "Umor vyklUCen *"
R_CRISIS_REPLY ==
  "A rAdom i slySu tvoU bolq. esli nuJna podderJka prAmo seYCas ~ obratisq k blizkim ili v sluJbu pomoWi. Cto seYCas bylo by samym bereJnym dlA tebA?"
R_GREET ==
  "privet * A anima ~ tvoY liCnyY psihologiCeskiY assistent. A pomogaU navesti Asnostq, snizitq stress i nametitq Sagi vperOd. naSi razgovory konfidencialqny, nikakogo spama ~ tolqko podderJka *||kak mne k tebe obraWatqsA?"
R_MOOD_PROMPT ==
  "kak ty seYCas? vyberi slovo: spokoYno, naprAJOnno, rasterAnno ~ ili opiSi po-svoemu."
R_ASK_NAME == "kak mne k tebe obraWatqsA? korotko ~ odnim slovom *"
R_KNO_INTRO ==
  "spasibo! naCnOm s korotkoY ankety (6 voprosov). otveCaY 1 ili 2, moJno slovami."
R_SUMMARY ==
  "spasibo, A luCSe ponimaU, kak s toboY govoritq *|uverennostq 40%|poka Eto CernovoY profilq. on budet utoCnAtqsA po hodu dialoga.||rasskaJi korotko ~ s Cem hoCeSq segodnA porabotatq ili o COm pogovoritq?||"
nice_to_meet(name) == "rada znakomstvu, " \o name \o "! *"

\* "on", "вкл", "да", "true"
HUMOR_ON_WORDS == {"on", "vkl", "da", "true"}
\* \bпошути\b | немного юмора | чуть иронии
HUMOR_WORD == {"poSuti"}
HUMOR_PHRASES == {"nemnogo Umora", "Cutq ironii"}
Digits == {"0", "1", "2", "3", "4", "5", "6", "7", "8", "9"}

\* The functions the router imports from api.services.dialogue.  That module
\* is not among the sources; each is modelled from what the specification
\* says of it and from the function of api/main.py that does the same work.

\* a message is processed only if its update_id was not recorded before;
\* without an update_id the check is skipped
idempotency_guard(table, update_id) ==
  IF update_id = NoneInt THEN [table |-> table, ret |-> TRUE]
  ELSE mark_update_processed(table, update_id)

set_state(st, patch) == Update(st, patch)
dialogue_crisis_detect(t) == crisis_detect(t)
DIALOGUE_STOP == STOP
log_event(rd) == [rd EXCEPT !.events = @ + 1]
dialogue_ensure_user(rd) == [rd EXCEPT !.user = TRUE]
dialogue_kno_start(st) == set_state(st, [kno_idx |-> 0, kno_answers |-> EmptyDict])
kno_next(st) == KNO[Get(st, "kno_idx", 0) + 1].text
\* the answer is registered as kno_step of api/main.py registers it
registered(r) == [state |-> r.d.app_state, ret |-> r.ret, raised |-> r.raised]
kno_register(st, text) ==
  registered(kno_step([FRESH EXCEPT !.user_profile = TRUE, !.app_state = st], text))
\* the texts build_reply, compose_menu and not_duplicate produce are not modelled
MENU == "<menu>"
DRAFT == "<reply>"

routes_facts[t \in RoutesTexts] ==
  [humor_cmd    |-> StartsWith(t, "/humor"),
   humor_on     |-> \E w \in HUMOR_ON_WORDS : Contains(t, w),
   humor_phrase |-> word_search(HUMOR_WORD, t) \/ re_search(HUMOR_PHRASES, t),
   crisis       |-> dialogue_crisis_detect(t),
   stop         |-> re_search(DIALOGUE_STOP, t),
   has_digit    |-> \E c \in Digits : Contains(t, c)]

routes_send(rd, branch, sent) == [d |-> rd, branch |-> branch, sent |-> sent, response |-> "ok"]
routes_raise(rd, branch, status) == [d |-> rd, branch |-> branch, sent |-> <<>>, response |-> status]

\* lines 146-161, given what kno_register returned
after_register(rd, r) ==
  IF r.raised THEN routes_raise(rd, "kno_raised", "error")
  ELSE IF r.ret = None
  THEN routes_send(log_event([rd EXCEPT !.state = r.state]), "kno_done", <<R_SUMMARY \o MENU>>)
  ELSE routes_send(log_event([rd EXCEPT !.state = r.state]), "kno_answer", <<r.ret>>)

\* lines 135-141, given the state after kno_start
after_intro(rd, st) ==
  routes_send([rd EXCEPT !.state = st], "intro_done", <<R_KNO_INTRO, kno_next(st)>>)

\* lines 91-189, given the state st after the humor phrase (86-89), which
\* is also the state of the store rd
routes_reply(rd, st, text, f) ==
  IF f.crisis THEN routes_send(log_event(rd), "crisis", <<R_CRISIS_REPLY>>)
  ELSE IF f.stop THEN routes_send(log_event(rd), "stop", <<STOP_REPLY>>)
  ELSE IF text \in {"/start", "start"}
  THEN routes_send(
         log_event([rd EXCEPT !.state =
           set_state(st, [intro_done |-> FALSE, name |-> None, kno_idx |-> NoneInt,
                          kno_done |-> FALSE, menu_map |-> EmptyDict])]),
         "start", <<R_GREET>>)
  ELSE IF ~Get(st, "intro_done", FALSE)
  THEN IF Get(st, "name", None) \in {None, ""}
       THEN IF Len(text) <= NAME_MAX /\ ~f.has_digit
            THEN routes_send([rd EXCEPT !.state = set_state(st, [name |-> text])],
                             "name", <<nice_to_meet(text), R_MOOD_PROMPT>>)
            ELSE routes_send(rd, "ask_name", <<R_ASK_NAME>>)
       ELSE after_intro(rd, dialogue_kno_start(set_state(st, [intro_done |-> TRUE])))
  ELSE IF ~Get(st, "kno_done", FALSE) THEN after_register(rd, kno_register(st, text))
  ELSE routes_send(log_event(log_event(rd)), "dialogue", <<DRAFT>>)

\* lines 77-89: the humor toggle, else the humor phrase and the rest
routes_text(rd, text, f) ==
  IF f.humor_cmd
  THEN routes_send([rd EXCEPT !.state = set_state(rd.state, [humor_on |-> f.humor_on])],
                   "humor", <<IF f.humor_on THEN R_HUMOR_ON ELSE R_HUMOR_OFF>>)
  ELSE IF f.humor_phrase
  THEN routes_reply([rd EXCEPT !.state = set_state(rd.state, [humor_on |-> TRUE])],
                    set_state(rd.state, [humor_on |-> TRUE]), text, f)
  ELSE routes_reply(rd, rd.state, text, f)

\* lines 77-189: the handling of a message's text, the user's row ensured
routes_message(rd, text) == routes_text(rd, text, routes_facts[text])

\* the router's webhook with the guard's answer not looked at
routes_webhook_unguarded(rd, update, header, db) ==
  IF WEBHOOK_SECRET # "" /\ header # WEBHOOK_SECRET
  THEN routes_raise(rd, "unauthorized", "401")
  ELSE LET g == IF update.update_id # NoneInt /\ db = "ok"
                THEN idempotency_guard(rd.table, update.update_id)
                ELSE [table |-> rd.table, ret |-> TRUE]
           rd1 == [rd EXCEPT !.table = g.table]
       IN IF update.message = EmptyDict THEN routes_send(rd1, "no_message", <<>>)
          ELSE IF db = "down" THEN routes_raise(rd1, "store_raised", "error")
          ELSE routes_message(dialogue_ensure_user(rd1),
                              Strip(Get(update.message, "text", "")))

\* POST /webhook/telegram of the router.  header is the X-Webhook-Secret
\* sent; db is "down" when the database cannot be reached during the call.
\* tg_send of api/services/telegram.py catches and logs a failed request, so
\* the handler goes on the same way whether or not the message gets out.
routes_webhook(rd, update, header, db) ==
  IF WEBHOOK_SECRET # "" /\ header # WEBHOOK_SECRET
  THEN routes_raise(rd, "unauthorized", "401")
  ELSE IF update.update_id # NoneInt /\ db = "down"
  THEN routes_raise(rd, "guard_raised", "503")
  ELSE LET g == idempotency_guard(rd.table, update.update_id)
           rd1 == [rd EXCEPT !.table = g.table]
       IN IF ~g.ret THEN routes_send(rd1, "duplicate", <<>>)
          ELSE IF update.message = EmptyDict THEN routes_send(rd1, "no_message", <<>>)
          \* ensure_user's exception is logged (70-73); app_state(uid) raises next
          ELSE IF db = "down" THEN routes_raise(rd1, "store_raised", "error")
          ELSE routes_message(dialogue_ensure_user(rd1),
                              Strip(Get(update.message, "text", "")))

\* calls of the router's webhook in one run, and the update ids Telegram uses
MaxRoutesCalls == 2
MaxRoutesUpdateId == 2

RoutesMessages ==
  {EmptyDict} \cup {TextMessage(t) : t \in RoutesTexts \ {""}} \cup {[chat_id |-> CHAT_ID]}
Headers == {WEBHOOK_SECRET, ""}
Dbs == {"ok", "down"}

FRESH_ROUTES == [user |-> FALSE, state |-> EmptyDict, events |-> 0, table |-> {}]

RECURSIVE routes_run_from(_, _, _)
routes_run_from(rd, script, i) ==
  IF i > Len(script) THEN rd
  ELSE routes_run_from(
         routes_webhook(rd, [update_id |-> NoneInt, message |-> TextMessage(script[i])],
                        WEBHOOK_SECRET, "ok").d,
         script, i + 1)

\* a new user; a user who has given a name; a user in the questionnaire; a
\* user who has completed it
ROUTES_INTRO == <<"/start", "anA", "ustala, ne znaU">>
RoutesScripts ==
  {<<>>,
   SubSeq(ROUTES_INTRO, 1, 2),
   ROUTES_INTRO,
   ROUTES_INTRO \o <<"1", "2", "1", "1", "2", "1">>}

RoutesStores == {routes_run_from(FRESH_ROUTES, s, 1) : s \in RoutesScripts}

routes_store == [user |-> r_user, state |-> r_state, events |-> r_events,
                 table |-> processed_updates]

\* one call of the router's webhook; Telegram may send any update again
RoutesDeliver ==
  /\ r_call.seq < MaxRoutesCalls
  /\ \E id \in {NoneInt} \cup 1..MaxRoutesUpdateId, m \in RoutesMessages,
        header \in Headers, db \in Dbs :
       \E update \in {[update_id |-> id, message |-> m]} :
       \E o \in {routes_webhook(routes_store, update, header, db)} :
         /\ r_user' = o.d.user
         /\ r_state' = o.d.state
         /\ r_events' = o.d.events
         /\ processed_updates' = o.d.table
         /\ r_call' = [seq |-> r_call.seq + 1, update |-> update, header |-> header,
                       db |-> db, branch |-> o.branch, sent |-> o.sent,
                       response |-> o.response, logged |-> o.d.events - r_events]
         /\ UNCHANGED <<main_vars, callers, race_vars>>

NoRoutesCall ==
  [seq |-> 0, update |-> [update_id |-> NoneInt, message |-> EmptyDict], header |-> "",
   db |-> "ok", branch |-> "none", sent |-> <<>>, response |-> "none", logged |-> 0]

-----------------------------------------------------------------------------
\* Specifications

Idle ==
  /\ MainStarts(FRESH)
  /\ processed_updates = {}
  /\ callers = <<>>
  /\ r_user = FALSE
  /\ r_state = EmptyDict
  /\ r_events = 0
  /\ r_call = NoRoutesCall
  /\ handlers = <<>>

\* the webhook of api/main.py, from any of the starting stores
Init ==
  /\ \E d \in Stores : MainStarts(d)
  /\ processed_updates = {}
  /\ callers = <<>>
  /\ r_user = FALSE
  /\ r_state = EmptyDict
  /\ r_events = 0
  /\ r_call = NoRoutesCall
  /\ handlers = <<>>

Next == Deliver \/ Redeliver

Spec == Init /\ [][Next]_vars

\* the questionnaire of api/main.py, from a new user
InitKno == Idle

NextKno == Answer

SpecKno == InitKno /\ [][NextKno]_vars

\* a long talk with the webhook of api/main.py after the questionnaire
InitTalk ==
  /\ \E d \in TalkStores : MainStarts(d)
  /\ processed_updates = {}
  /\ callers = <<>>
  /\ r_user = FALSE
  /\ r_state = EmptyDict
  /\ r_events = 0
  /\ r_call = NoRoutesCall
  /\ handlers = <<>>

NextTalk == Talk

SpecTalk == InitTalk /\ [][NextTalk]_vars

\* concurrent callers of mark_update_processed of api/db.py
InitDb == Idle

NextDb == Call \/ Execute \/ Unavailable \/ Return

SpecDb == InitDb /\ [][NextDb]_vars

\* the webhook of api/routes/telegram.py
InitRoutes ==
  /\ MainStarts(FRESH)
  /\ callers = <<>>
  /\ \E rd \in RoutesStores :
       /\ r_user = rd.user
       /\ r_state = rd.state
       /\ r_events = rd.events
       /\ processed_updates = rd.table
  /\ r_call = NoRoutesCall
  /\ handlers = <<>>

NextRoutes == RoutesDeliver

SpecRoutes == InitRoutes /\ [][NextRoutes]_vars

-----------------------------------------------------------------------------
\* Concurrent calls of the webhook of main.py for one user.  The webhook is
\* a coroutine: its store calls (q, lines 20-28) block the event loop, so a
\* call runs from its first line to `await tg_send` without another call in
\* between, and other calls run while it waits for the send.

\* calls of the webhook that overlap in one run
MaxHandlers == 3

\* what the user sends after the questionnaire: a text on a topic, a text
\* on another topic, a text with no topic
RaceTexts == {"kredit", "ssora s muJem", "1"}

\* the stores a run of overlapping calls starts in: the questionnaire
\* complete, a topic adopted by the classifier, a topic locked by a command
RaceStores ==
  {run_from(FRESH, s, 1) :
     s \in {ANSWERS, ANSWERS \o <<"kredit">>, ANSWERS \o <<"davaY pro finansy">>}}

\* lines 612-622: the current topic, sub-topic and step a call holds in its
\* local variables, given the state st read at line 611
current_after(st, f) ==
  IF adopts(st, f) THEN [topic |-> f.intent[1], subtopic |-> f.intent[2], topic_step |-> 0]
  ELSE [topic |-> Get(st, "topic", None), subtopic |-> Get(st, "subtopic", None),
        topic_step |-> Get(st, "topic_step", 0)]

\* lines 605-657 and 669-678: the local variables a call of the free dialogue
\* holds when it reaches the send; d is the store the call found, o what
\* the webhook has done when the send is awaited
suspended(d, text, f, o) ==
  LET d2 == IF f.relevance.rel
            THEN update_profile(ensure_user(d), f.relevance.axes, f.relevance.anchors)
            ELSE ensure_user(d)
      cur == current_after(app_state_get(d2), f)
  IN  [pc |-> "sending", text |-> text, branch |-> o.branch, draft |-> o.sent[1],
       topic |-> cur.topic, subtopic |-> cur.subtopic, topic_step |-> cur.topic_step,
       phase |-> phase_after(d2, f)]

\* the statements after the send run on the store as it is now, with the step
\* read from it now
resumed_rereads(d, h, f) ==
  IF h.branch = "topic_step"
  THEN topic_turn(d, h.text, f, h.topic, h.subtopic, Get(app_state_get(d), "topic_step", 0),
                  h.phase, h.draft, "ok").d
  ELSE IF h.branch = "redirect"
  THEN redirect(d, h.draft, h.topic, h.subtopic, "ok").d
  ELSE no_topic_turn(d, h.text, f, h.phase, h.draft, "ok").d

\* lines 642, 659-667 and 680-689: the statements after the send, run on the
\* store d as it is when the send returns, with the local variables h
resumed(d, h, f) ==
  IF h.branch = "topic_step"
  THEN topic_turn(d, h.text, f, h.topic, h.subtopic, h.topic_step, h.phase, h.draft, "ok").d
  ELSE IF h.branch = "redirect"
  THEN redirect(d, h.draft, h.topic, h.subtopic, "ok").d
  ELSE no_topic_turn(d, h.text, f, h.phase, h.draft, "ok").d

SetStore(d) ==
  /\ user_profile' = d.user_profile
  /\ app_state' = d.app_state
  /\ psycho_profile' = d.psycho_profile
  /\ dialog_events' = d.dialog_events

\* a message arrives and its call runs up to the send (lines 519-657, 669-678)
RaceBegin ==
  /\ Len(handlers) < MaxHandlers
  /\ \E t \in RaceTexts :
       \E o \in {webhook(store, [update_id |-> Len(handlers) + 1,
                                 message |-> TextMessage(t)], "fail")} :
         /\ SetStore(o.d)
         /\ handlers' = Append(handlers, suspended(store, t, text_facts[t], o))
  /\ UNCHANGED <<call, db_vars, routes_vars>>

\* the send of a waiting call returns and the call runs to its response
RaceResume ==
  \E i \in DOMAIN handlers :
    /\ handlers[i].pc = "sending"
    /\ SetStore(resumed(store, handlers[i], text_facts[handlers[i].text]))
    /\ handlers' = [handlers EXCEPT ![i].pc = "done"]
    /\ UNCHANGED <<call, db_vars, routes_vars>>

\* the send of a waiting call raises and the call ends there (lines 35-43)
RaceSendFails ==
  \E i \in DOMAIN handlers :
    /\ handlers[i].pc = "sending"
    /\ handlers' = [handlers EXCEPT ![i].pc = "failed"]
    /\ UNCHANGED <<main_vars, db_vars, routes_vars>>

\* overlapping calls of the webhook of api/main.py for one user
InitRace ==
  /\ \E d \in RaceStores : MainStarts(d)
  /\ processed_updates = {}
  /\ callers = <<>>
  /\ r_user = FALSE
  /\ r_state = EmptyDict
  /\ r_events = 0
  /\ r_call = NoRoutesCall
  /\ handlers = <<>>

NextRace == RaceBegin \/ RaceResume \/ RaceSendFails

SpecRace == InitRace /\ [][NextRace]_vars

\* the questionnaire of api/main.py with a user who keeps sending messages
SpecKnoFair == InitKno /\ [][NextKno]_vars /\ WF_vars(Answer)

-----------------------------------------------------------------------------
\* Properties

\* the text of a call's message, as the handler reads it
TextOf(c) == Strip(Get(c.update.message, "text", ""))
HasMessage(c) == c.update.message # EmptyDict

\* the topic fields of an app state, as st.get reads them
TopicFields(st) ==
  <<Get(st, "topic", None), Get(st, "subtopic", None), Get(st, "topic_step", 0),
    Get(st, "topic_locked", FALSE), Get(st, "prev_topic", None), Get(st, "prev_subtopic", None)>>

\* the questionnaire has started and is not complete
InProgress(st) ==
  /\ Get(st, "kno_idx", NoneInt) # NoneInt
  /\ ~Get(st, "kno_done", FALSE)

\* C1: when the same update (same update_id, same message) is delivered again
\* after a delivery that was answered {ok: true}, the second delivery sends
\* nothing, inserts no DialogEvent and changes no user state.
C1_RedeliveryDoesNothing ==
  [][(/\ call'.update = call.update
      /\ call'.attempt = call.attempt + 1
      /\ call.response = "ok")
       => (/\ call'.sent = <<>>
           /\ call'.inserted = 0
           /\ user_profile' = user_profile
           /\ app_state' = app_state
           /\ psycho_profile' = psycho_profile)]_vars

\* C2: in every user state, a text that matches the crisis pattern - also one
\* that matches the sensitive-topic pattern, a command or an intent - is
\* answered with the crisis reply only, and AppState and PsychoProfile are
\* left as they were.
C2_CrisisOnlySafetyReply ==
  [][(HasMessage(call') /\ re_search(CRISIS, TextOf(call')))
       => (/\ call'.branch = "crisis"
           /\ call'.sent = <<CRISIS_REPLY>>
           /\ app_state' = app_state
           /\ psycho_profile' = psycho_profile)]_vars

\* C2 happens: a crisis text that is also a switch command and carries an
\* intent, from a user with the questionnaire complete and a topic locked
C2_Witness ==
  /\ call.branch = "crisis"
  /\ TextOf(call) = "davaY pro son ne hoCu Jitq"
  /\ Get(app_state, "kno_done", FALSE)
  /\ Get(app_state, "topic_locked", FALSE)

\* C6: a text that matches the sensitive-topic pattern and not the crisis
\* pattern is answered with the deflection reply only, and AppState and
\* PsychoProfile are left as they were, whatever the user's state, also when
\* the text is a command or arrives as an answer of the questionnaire.
C6_StopOnlyDeflects ==
  [][(/\ HasMessage(call')
      /\ re_search(STOP, TextOf(call'))
      /\ ~re_search(CRISIS, TextOf(call')))
       => (/\ call'.branch = "stop"
           /\ call'.sent = <<STOP_REPLY>>
           /\ app_state' = app_state
           /\ psycho_profile' = psycho_profile)]_vars

\* C6 happens: a sensitive text that is also a switch command, from a user
\* in the middle of the questionnaire
C6_Witness ==
  /\ call.branch = "stop"
  /\ TextOf(call) = "davaY pro religiU"
  /\ InProgress(app_state)

\* C8: while the questionnaire is incomplete, every message that passes the
\* two safety checks is handled by the onboarding branch and leaves the topic
\* fields (topic, subtopic, topic_step, topic_locked, prev_topic,
\* prev_subtopic) as they were.
C8_OnboardingBeforeTopics ==
  [][(/\ HasMessage(call')
      /\ ~Get(app_state, "kno_done", FALSE)
      /\ ~re_search(CRISIS, TextOf(call'))
      /\ ~re_search(STOP, TextOf(call')))
       => (/\ call'.branch \in {"kno_start", "kno_answer", "kno_done"}
           /\ TopicFields(app_state') = TopicFields(app_state))]_vars

\* C10: "/start" received after the questionnaire is complete clears the
\* onboarding fields and the topic fields, sends the first question again and
\* is answered {ok: true}.
C10_ResetRestartsQuestionnaire ==
  [][(/\ HasMessage(call')
      /\ TextOf(call') = "/start"
      /\ call'.net = "ok"
      /\ Get(app_state, "kno_done", FALSE))
       => (/\ call'.response = "ok"
           /\ call'.sent = <<INTRO \o "||" \o KNO[1].text>>
           /\ ~Get(app_state', "kno_done", FALSE)
           /\ Get(app_state', "kno_idx", NoneInt) = 0
           /\ Get(app_state', "kno_answers", EmptyDict) = EmptyDict
           /\ TopicFields(app_state') = <<None, None, 0, FALSE, None, None>>)]_vars

\* the answer the handler must have recorded for a text whose reading does
\* not depend on the question, 0 when it does
PlainChoice(text) ==
  IF text \in {"", "1", "/start", "ustala, ne znaU"} THEN 1
  ELSE IF text = "2" THEN 2
  ELSE 0

Answered(answers, keys, v) == Cardinality({k \in keys : answers[k] = v})
\* x / (x + y), the denominator at least 1
ShareOf(x, y) == (x * ONE) \div (IF x + y = 0 THEN 1 ELSE x + y)

\* C9: right after the sixth answer the stored profile has ei = E/(E+I),
\* sn = N/(S+N), tf = T/(T+F), jp = J/(J+P) from the tallies of the six
\* answers (option 1 is E, S, T, J; option 2 is I, N, F, P) and confidence
\* 0.4; after the answers 1,2,1,1,2,1 it is ei=1, sn=1, tf=1, jp=0.5, 0.4.
C9_ProfileFromTallies ==
  call.branch = "kno_done" =>
    LET a == app_state.kno_answers
        EI == {"ei_q1", "ei_q2"}
        SN == {"sn_q1"}
        TF == {"tf_q1"}
        JP == {"jp_q1", "jp_q2"}
    IN /\ DOMAIN a = EI \cup SN \cup TF \cup JP
       /\ psycho_profile # NoRow
       /\ psycho_profile.ei = ShareOf(Answered(a, EI, 1), Answered(a, EI, 2))
       /\ psycho_profile.sn = ShareOf(Answered(a, SN, 2), Answered(a, SN, 1))
       /\ psycho_profile.tf = ShareOf(Answered(a, TF, 1), Answered(a, TF, 2))
       /\ psycho_profile.jp = ShareOf(Answered(a, JP, 1), Answered(a, JP, 2))
       /\ psycho_profile.confidence = 400
       /\ (a = [ei_q1 |-> 1, sn_q1 |-> 2, tf_q1 |-> 1, jp_q1 |-> 1, jp_q2 |-> 2, ei_q2 |-> 1]
             => /\ psycho_profile.ei = 1000
                /\ psycho_profile.sn = 1000
                /\ psycho_profile.tf = 1000
                /\ psycho_profile.jp = 500)

\* C9 happens: the questionnaire has just been completed with 1,2,1,1,2,1
C9_Witness ==
  /\ call.branch = "kno_done"
  /\ TextOf(call) = "1"
  /\ app_state.kno_answers =
       [ei_q1 |-> 1, sn_q1 |-> 2, tf_q1 |-> 1, jp_q1 |-> 1, jp_q2 |-> 2, ei_q2 |-> 1]
  /\ psycho_profile.jp = 500

\* the callers of mark_update_processed(u) whose statement has run, those
\* that have returned, and those that returned true
Ran(u) == {i \in DOMAIN callers : callers[i].update_id = u /\ callers[i].pc \in {"return", "done"}}
Returned(u) == {i \in DOMAIN callers : callers[i].update_id = u /\ callers[i].pc = "done"}
ReturnedTrue(u) == {i \in Returned(u) : callers[i].ret}

\* C5: among the calls of mark_update_processed with one update_id, however
\* they interleave, at most one returns true and it is the one whose insert
\* took effect; once every call that ran has returned, exactly one has
\* returned true and all the others false; a recorded update_id stays recorded.
C5_ExactlyOneWins ==
  \A u \in 1..MaxDbUpdateId :
    /\ Cardinality(ReturnedTrue(u)) <= 1
    /\ \A i \in Returned(u) : callers[i].ret <=> (callers[i].status = "INSERT 0 1")
    /\ Cardinality({i \in Ran(u) : callers[i].status = "INSERT 0 1"})
         = (IF u \in processed_updates THEN 1 ELSE 0)
    /\ (Ran(u) # {} /\ Ran(u) = Returned(u)) => Cardinality(ReturnedTrue(u)) = 1
    /\ Ran(u) # {} => u \in processed_updates

\* C5 happens: three calls with one update_id have returned, the second to
\* enter won, the first and the third returned false
C5_Witness ==
  \E i, j, k \in DOMAIN callers :
    /\ i < j /\ j < k
    /\ callers[i].update_id = callers[j].update_id
    /\ callers[j].update_id = callers[k].update_id
    /\ callers[i].pc = "done" /\ callers[j].pc = "done" /\ callers[k].pc = "done"
    /\ ~callers[i].ret /\ callers[j].ret /\ ~callers[k].ret

\* the branches of the router's webhook that process a message
RoutesProcessing ==
  {"humor", "crisis", "stop", "start", "name", "ask_name", "intro_done", "kno_raised",
   "kno_done", "kno_answer", "dialogue"}

\* C3: in the router's webhook every processed text that matches the crisis
\* pattern is answered with the crisis reply and writes no AppState, also a
\* text that starts with "/humor" or holds a humor phrase.
C3_SafetyBeforeHumor ==
  [][(/\ r_call'.seq = r_call.seq + 1
      /\ r_call'.branch \in RoutesProcessing
      /\ re_search(CRISIS, TextOf(r_call')))
       => (/\ r_call'.sent = <<R_CRISIS_REPLY>>
           /\ r_state' = r_state)]_vars

\* C4: in the router's webhook a message is processed only if the guard
\* returned true.  When the update_id is already recorded the handler
\* answers {ok: true}, when the guard raises it answers 503, and in both
\* cases no user row is created, the app state is not written, nothing is
\* sent and no event is logged.
C4_GuardGatesProcessing ==
  [][(r_call'.seq = r_call.seq + 1 /\ r_call'.header = WEBHOOK_SECRET)
       => LET id == r_call'.update.update_id
              untouched == /\ r_call'.sent = <<>>
                           /\ r_call'.logged = 0
                           /\ r_user' = r_user
                           /\ r_state' = r_state
                           /\ r_events' = r_events
          IN /\ (id # NoneInt /\ r_call'.db = "ok" /\ id \in processed_updates)
                  => (r_call'.response = "ok" /\ r_call'.branch = "duplicate" /\ untouched)
             /\ (id # NoneInt /\ r_call'.db = "down")
                  => (r_call'.response = "503" /\ untouched
                      /\ processed_updates' = processed_updates)
             /\ (r_call'.branch \in RoutesProcessing)
                  => (id = NoneInt \/ (id \notin processed_updates /\ id \in processed_updates'))]_vars

\* C4 happens: an update with a text was delivered a second time and dropped
C4_Witness ==
  /\ r_call.branch = "duplicate"
  /\ r_call.update.update_id \in processed_updates
  /\ HasMessage(r_call)
  /\ r_call.seq = MaxRoutesCalls

-----------------------------------------------------------------------------
\* Properties of the free dialogue

\* the reset commands of line 578
ResetTexts == {"/start", "start", "naCatq"}

\* the branches of the onboarding block (576-603)
OnboardingBranches == {"kno_start", "kno_answer", "kno_done", "kno_raised"}

\* the call's message passes the safety checks, is no topic command and no
\* reset command: with the questionnaire complete it reaches line 605
ReachesDialogue(c) ==
  /\ HasMessage(c)
  /\ ~text_facts[TextOf(c)].crisis
  /\ ~text_facts[TextOf(c)].stop
  /\ text_facts[TextOf(c)].cmd.cmd = None
  /\ TextOf(c) \notin ResetTexts

\* the classifier proposes a topic or a sub-topic other than the state's
OffTopic(st, c) ==
  LET topic == Get(st, "topic", None)
      sub == Get(st, "subtopic", None)
      intent == text_facts[TextOf(c)].intent
  IN \/ (topic # None /\ intent[1] # None /\ intent[1] # topic)
     \/ (sub # None /\ intent[2] # None /\ intent[2] # sub)

\* C11: once kno_done is true it stays true, and a message whose text is not
\* a reset command is never handled by the onboarding branch again.
C11_CompletionIsSticky ==
  [][Get(app_state, "kno_done", FALSE)
       => (/\ Get(app_state', "kno_done", FALSE)
           /\ (HasMessage(call') /\ TextOf(call') \notin ResetTexts)
                => call'.branch \notin OnboardingBranches)]_vars

\* C11 happens: the questionnaire is complete and the digit "1", an answer
\* while it ran, has been answered by the free dialogue
C11_Witness ==
  /\ Get(app_state, "kno_done", FALSE)
  /\ TextOf(call) = "1"
  /\ call.branch = "no_topic"
  /\ call.update.update_id = MaxUpdateId

\* C12: when the last call locked a topic by a switch or go-back command, the
\* next message that reaches the dialogue and whose detected topic or
\* sub-topic differs from the locked one is answered with the redirect only,
\* sets topic_reminded and leaves topic, subtopic and topic_step as they were.
C12_FirstDriftIsRedirected ==
  [][(/\ call.branch \in {"switch", "back"}
      /\ Get(app_state, "kno_done", FALSE)
      /\ ReachesDialogue(call')
      /\ OffTopic(app_state, call'))
       => (/\ call'.branch = "redirect"
           /\ call'.sent = <<redirect_reply(app_state.topic, app_state.subtopic)>>
           /\ Get(app_state', "topic_reminded", FALSE)
           /\ Get(app_state', "topic", None) = Get(app_state, "topic", None)
           /\ Get(app_state', "subtopic", None) = Get(app_state, "subtopic", None)
           /\ Get(app_state', "topic_step", 0) = Get(app_state, "topic_step", 0))]_vars

\* C13: with a topic locked and the reminder given, an off-topic message is
\* let through and answered as a step of the topic, no second redirect is
\* sent, and topic_reminded stays true: only an on-topic message resets it.
C13_ReminderResetOnlyOnTopic ==
  [][(/\ Get(app_state, "kno_done", FALSE)
      /\ Get(app_state, "topic_locked", FALSE)
      /\ Get(app_state, "topic_reminded", FALSE)
      /\ ReachesDialogue(call')
      /\ OffTopic(app_state, call'))
       => (/\ call'.branch = "topic_step"
           /\ Get(app_state', "topic_reminded", FALSE))]_vars

\* the classifier's proposal for the call's text clears the threshold
Proposes(c) ==
  /\ text_facts[TextOf(c)].intent[1] # None
  /\ text_facts[TextOf(c)].intent[3] >= 350

\* C14: with the questionnaire complete, a message that reaches the
\* classifier while no topic is locked and whose detected topic scores at
\* least the threshold makes the detected pair current and is answered with
\* that topic's first prompt (topic_step is 0 when the reply is rendered, 1
\* once it has been sent); while a topic is locked the detected pair never
\* replaces the current one.
C14_UnlockedIntentAdopted ==
  [][(Get(app_state, "kno_done", FALSE) /\ ReachesDialogue(call'))
       => LET intent == text_facts[TextOf(call')].intent
          IN /\ (~Get(app_state, "topic_locked", FALSE) /\ Proposes(call'))
                  => (/\ Get(app_state', "topic", None) = intent[1]
                      /\ Get(app_state', "subtopic", None) = intent[2]
                      /\ call'.branch = "topic_step"
                      /\ Len(call'.sent) = 1
                      /\ EndsWith(call'.sent[1], topic_question(intent[1], intent[2], 0))
                      /\ Get(app_state', "topic_step", 0)
                           = (IF call'.response = "ok" THEN 1 ELSE 0))
             /\ Get(app_state, "topic_locked", FALSE)
                  => (/\ Get(app_state', "topic", None) = Get(app_state, "topic", None)
                      /\ Get(app_state', "subtopic", None)
                           = Get(app_state, "subtopic", None))]_vars

\* C14 happens: a user whose current topic was taken from the classifier and
\* had advanced has named another topic, which replaced it at its first prompt
C14_Witness ==
  /\ call.branch = "topic_step"
  /\ call.update.update_id = MaxUpdateId
  /\ TextOf(call) = "ssora s muJem"
  /\ ~Get(app_state, "topic_locked", FALSE)
  /\ app_state.topic = "relations"
  /\ app_state.subtopic = "partner_conflict"
  /\ app_state.topic_step = 1
  /\ dialog_events.last.text
       = "A rAdom i slySu tebA. prodolJim <konflikt s partnOrom>. esli pro konflikt: Cto ty CuvstvueSq i kakaA potrebnostq za Etim stoit?"

\* the axes of a profile row
Axes == {"ei", "sn", "tf", "jp"}

\* C15: every axis score of a stored profile is within [0,1], after the
\* questionnaire and after any number of profile updates, also when the same
\* delta is applied again and again.
C15_AxesWithinUnit ==
  psycho_profile # NoRow =>
    \A a \in Axes : psycho_profile[a] >= 0 /\ psycho_profile[a] <= 1000

\* C15 happens: the same two deltas were applied until both axes stopped at
\* the ends of the interval, and applied again
C15_Witness ==
  /\ psycho_profile # NoRow
  /\ psycho_profile.ei = 1000
  /\ psycho_profile.jp = 0
  /\ Len(psycho_profile.anchors) = 50
  /\ psycho_profile.confidence = 990

\* the stored confidence, 0 while there is no row
ConfidenceOf(p) == IF p = NoRow THEN 0 ELSE p.confidence

\* C16: the stored confidence never decreases, whatever message is handled.
C16_ConfidenceNeverDecreases ==
  [][ConfidenceOf(psycho_profile') >= ConfidenceOf(psycho_profile)]_vars

\* C16 happens: the questionnaire was completed in this run (0.4) and a
\* message with a cue followed (0.42)
C16_Witness ==
  /\ call.update.update_id = MaxUpdateId
  /\ dialog_events.n = 11
  /\ psycho_profile # NoRow
  /\ psycho_profile.confidence = 420
  /\ Len(psycho_profile.anchors) = 2

\* C17: a message that reaches the profile update and carries at least one
\* cue raises the confidence by 0.02, stopping at 0.99; every other message
\* leaves it as it was; the stored value is never above 0.99.
C17_ConfidenceStep ==
  [][(psycho_profile # NoRow /\ HasMessage(call'))
       => (/\ psycho_profile' # NoRow
           /\ psycho_profile'.confidence <= 990
           /\ psycho_profile'.confidence =
                (IF /\ Get(app_state, "kno_done", FALSE)
                    /\ ReachesDialogue(call')
                    /\ text_facts[TextOf(call')].relevance.axes # EmptyDict
                 THEN (IF psycho_profile.confidence + 20 > 990 THEN 990
                       ELSE psycho_profile.confidence + 20)
                 ELSE psycho_profile.confidence))]_vars

\* C17 happens: thirty messages with a cue took the confidence from 0.4 to
\* 0.99 and a thirty-first has left it there (each moved ei by 0.02, from 0)
C17_Witness ==
  /\ psycho_profile # NoRow
  /\ psycho_profile.confidence = 990
  /\ TextOf(call) = "spontannye vstreCi"
  /\ call.branch = "no_topic"
  /\ call.update.update_id = 31
  /\ psycho_profile.ei = 620

\* C18: on the topic path and on the no-topic path the reply sent either
\* passes the quality gate or is the fixed fallback; on the topic path it is
\* the candidate (reflection, topic title, prompt of the step) when the
\* candidate passes the gate, and the fixed fallback when it does not.
C18_GateOrFixedFallback ==
  [][(call'.branch \in {"topic_step", "no_topic"} /\ call'.response = "ok")
       => (/\ Len(call'.sent) = 1
           /\ (quality_ok(call'.sent[1]) \/ call'.sent[1] = FALLBACK_REPLY)
           /\ call'.branch = "topic_step"
                => call'.sent[1]
                     = gate(topic_draft(text_facts[TextOf(call')].reflect, app_state'.topic,
                                        app_state'.subtopic, app_state'.topic_step - 1),
                            FALLBACK_REPLY))]_vars

\* C19: a switch command stores the pair it leaves in the single history
\* slot; a go-back with the slot filled makes that pair current with
\* topic_step 0 and topic_locked true and empties the slot; a go-back with
\* the slot empty - so every second consecutive go-back - changes no field of
\* AppState and replies that there is nothing to return to.
C19_BackRestoresOnce ==
  [][(/\ HasMessage(call')
      /\ ~text_facts[TextOf(call')].crisis
      /\ ~text_facts[TextOf(call')].stop)
       => LET f == text_facts[TextOf(call')]
          IN /\ (f.cmd.cmd = "switch" /\ f.target # <<None, None>>)
                  => (/\ Get(app_state', "prev_topic", None) = Get(app_state, "topic", None)
                      /\ Get(app_state', "prev_subtopic", None)
                           = Get(app_state, "subtopic", None))
             /\ (f.cmd.cmd = "back" /\ Get(app_state, "prev_topic", None) # None)
                  => (/\ call'.branch = "back"
                      /\ TopicFields(app_state')
                           = <<app_state.prev_topic, app_state.prev_subtopic, 0, TRUE,
                               None, None>>)
             /\ (f.cmd.cmd = "back" /\ Get(app_state, "prev_topic", None) = None)
                  => (/\ call'.branch = "back_nothing"
                      /\ call'.sent = <<NO_BACK_REPLY>>
                      /\ app_state' = app_state)]_vars

\* C19 happens: with finance locked the user switched to sleep, went back to
\* finance, and went back again: the last event logged is the first go-back's
C19_Witness ==
  /\ call.branch = "back_nothing"
  /\ call.update.update_id = MaxUpdateId
  /\ TopicFields(app_state) = <<"finance", None, 0, TRUE, None, None>>
  /\ dialog_events.n > 0
  /\ dialog_events.last.text = back_reply("finance", None)

\* C20: when the send of a reply fails, the handler still answers
\* {ok: true}, leaves AppState and the DialogEvent log as a successful send
\* would have left them, and has tried the send once.
C20_SendFailureSwallowed ==
  [][(call'.net = "fail" /\ call'.sent # <<>>)
       => (/\ call'.response = "ok"
           /\ Len(call'.sent) = 1
           /\ app_state' = webhook(store, call'.update, "ok").d.app_state
           /\ dialog_events' = webhook(store, call'.update, "ok").d.dialog_events)]_vars

-----------------------------------------------------------------------------
\* Claims C21..C30

\* C21: two overlapping calls can lose an update of AppState.  A call that
\* answers on the topic writes, after its send, the step it read before the
\* send plus one, whatever the store holds by then; so when two calls read
\* the same step k, both write k + 1 and topic_step advances by one for two
\* answered messages (C21_Witness).
C21_WritesTheStepItRead ==
  [][\A i \in DOMAIN handlers :
       (handlers[i].pc = "sending" /\ handlers'[i].pc = "done"
        /\ handlers[i].branch = "topic_step")
       => app_state'.topic_step = handlers[i].topic_step + 1]_vars

\* two calls answered on the same locked topic, both read the same step, and
\* the stored step is one more than it
C21_Witness ==
  /\ Len(handlers) = 2
  /\ \A i \in {1, 2} : handlers[i].pc = "done" /\ handlers[i].branch = "topic_step"
  /\ handlers[1].topic = handlers[2].topic
  /\ handlers[1].topic_step = handlers[2].topic_step
  /\ Get(app_state, "topic_locked", FALSE)
  /\ app_state.topic_step = handlers[1].topic_step + 1

\* C22: from a new user who keeps sending messages with no safety word and
\* no topic command, the questionnaire completes, and it completes with the
\* seventh message: the first message starts it, messages 2..6 find
\* kno_idx = 0..4 and leave 1..5, the seventh finds 5 and completes; until
\* then kno_step is only called with an index in 0..5 and never raises.
C22_OnboardingTerminates ==
  /\ [](/\ call.update.update_id = 0 => app_state = EmptyDict
        /\ call.update.update_id \in 1..Len(KNO)
             => /\ ~Get(app_state, "kno_done", FALSE)
                /\ Get(app_state, "kno_idx", NoneInt) = call.update.update_id - 1
        /\ call.update.update_id > Len(KNO) => Get(app_state, "kno_done", FALSE))
  /\ [][(~Get(app_state, "kno_done", FALSE)
         /\ call'.branch \in {"kno_answer", "kno_done", "kno_raised"})
        => /\ Get(app_state, "kno_idx", NoneInt) \in 0..(Len(KNO) - 1)
           /\ call'.branch # "kno_raised"
           /\ call'.branch = "kno_done" <=> call'.update.update_id = Len(KNO) + 1]_vars
  /\ <>Get(app_state, "kno_done", FALSE)

\* the seventh message has completed the questionnaire
C22_Witness ==
  /\ call.update.update_id = Len(KNO) + 1
  /\ call.branch = "kno_done"
  /\ Get(app_state, "kno_done", FALSE)
  /\ psycho_profile # NoRow

\* C23: while the current (topic, subtopic) pair stays the same, a message of
\* the free dialogue never lowers topic_step, and one answered with a topic
\* prompt leaves topic_step one above its value before the message.
C23_StepAdvancesByOne ==
  [][(/\ Get(app_state, "kno_done", FALSE)
      /\ Get(app_state, "topic", None) # None
      /\ ReachesDialogue(call')
      /\ Get(app_state', "topic", None) = Get(app_state, "topic", None)
      /\ Get(app_state', "subtopic", None) = Get(app_state, "subtopic", None))
       => (/\ Get(app_state', "topic_step", 0) >= Get(app_state, "topic_step", 0)
           /\ (call'.branch = "topic_step" /\ call'.response = "ok")
                => Get(app_state', "topic_step", 0) = Get(app_state, "topic_step", 0) + 1)]_vars

\* C24: when the last call locked a topic by a switch or go-back command, whose
\* reply showed the topic's first prompt, the next message answered on the
\* topic is shown the second prompt and not the first one again.
C24_SecondPromptAfterLock ==
  [][(/\ call.branch \in {"switch", "back"}
      /\ Get(app_state, "kno_done", FALSE)
      /\ Get(app_state, "topic_locked", FALSE)
      /\ ReachesDialogue(call')
      /\ ~OffTopic(app_state, call')
      /\ call'.branch = "topic_step")
       => (/\ EndsWith(call'.sent[1], topic_question(app_state.topic, app_state.subtopic, 1))
           /\ ~EndsWith(call'.sent[1],
                        topic_question(app_state.topic, app_state.subtopic, 0)))]_vars

\* C25: with a current topic, locked or adopted, a message for which the
\* classifier proposes another topic or sub-topic leaves the current pair as
\* it was, and is answered with the redirect when no reminder is pending.
C25_DriftNeverReplaces ==
  [][(/\ Get(app_state, "kno_done", FALSE)
      /\ Get(app_state, "topic", None) # None
      /\ ReachesDialogue(call')
      /\ OffTopic(app_state, call'))
       => (/\ Get(app_state', "topic", None) = Get(app_state, "topic", None)
           /\ Get(app_state', "subtopic", None) = Get(app_state, "subtopic", None)
           /\ ~Get(app_state, "topic_reminded", FALSE) => call'.branch = "redirect")]_vars

\* C26: a clear-topic command leaves no current topic (topic_locked false,
\* topic null), and the next message with no detected intent is answered on
\* the no-topic path.
C26_ClearLeavesNoTopic ==
  [][/\ (call'.branch = "clear" /\ Get(app_state, "topic_locked", FALSE))
          => (/\ ~Get(app_state', "topic_locked", FALSE)
              /\ Get(app_state', "topic", None) = None)
     /\ (/\ call.branch = "clear"
         /\ Get(app_state, "kno_done", FALSE)
         /\ ReachesDialogue(call')
         /\ ~Proposes(call'))
          => call'.branch = "no_topic"]_vars

\* C27: whenever the profile row exists, mbti_type is set exactly when
\* confidence >= 0.4, and a set label has each letter from its own axis
\* compared with 0.5.
C27_LabelIffRevealed ==
  psycho_profile # NoRow
    => (/\ psycho_profile.mbti_type # None <=> psycho_profile.confidence >= REVEAL
        /\ psycho_profile.mbti_type # None
             => psycho_profile.mbti_type
                  = to_mbti(psycho_profile.ei, psycho_profile.sn, psycho_profile.tf,
                            psycho_profile.jp))

\* the score of topic i for a text, and of its sub-topic j: 0 without a match
own_score(i, t) ==
  IF match_start(INTENTS[i].re, t) < 0 THEN 0
  ELSE BASE_SCORE + (IF match_start(INTENTS[i].re, t) < EARLY_START THEN EARLY_BONUS ELSE 0)

sub_score(i, j, t) ==
  IF match_start(INTENTS[i].children[j].re, t) < 0 THEN 0
  ELSE Min({SCORE_CAP,
            CHILD_SCORE + (IF match_start(INTENTS[i].children[j].re, t) < EARLY_START
                           THEN EARLY_BONUS ELSE 0)})

best_sub_score(i, t) ==
  Max({0} \cup {sub_score(i, j, t) : j \in 1..Len(INTENTS[i].children)})

topic_score(i, t) == Max({own_score(i, t), best_sub_score(i, t)})

\* the answer C28 describes: the first-declared topic among those of maximal
\* score, with its first-declared sub-topic among those of the best score
best_intent[t \in Texts] ==
  LET top == Max({topic_score(i, t) : i \in 1..Len(INTENTS)})
  IN IF top = 0 THEN <<None, None, 0>>
     ELSE LET i == Min({k \in 1..Len(INTENTS) : topic_score(k, t) = top})
              subs == {j \in 1..Len(INTENTS[i].children) :
                         sub_score(i, j, t) > 0 /\ sub_score(i, j, t) = best_sub_score(i, t)}
          IN <<INTENTS[i].key,
               IF subs = {} THEN None ELSE INTENTS[i].children[Min(subs)].key,
               top>>

\* C28: for the text of every call, detect_intent returns the pair of maximal
\* score, a topic's score being the larger of its own and its best
\* sub-topic's; at equal scores the topic declared first wins and, within it,
\* the sub-topic declared first; with no match it returns (None, None, 0).
C28_DetectIntentIsArgmax ==
  HasMessage(call) => text_facts[TextOf(call)].intent = best_intent[TextOf(call)]

\* a text that two topics match with the same score was classified and the
\* topic declared first, with its sub-topic, became current
C28_Witness ==
  /\ TextOf(call) = "kredit, son"
  /\ topic_score(3, "kredit, son") = topic_score(5, "kredit, son")
  /\ call.branch = "topic_step"
  /\ app_state.topic = "health"
  /\ app_state.subtopic = "sleep"

\* C29: for the text of every call answered on the topic with a reply that
\* opens with the reflection, reflect_emotion returns the sentence of the
\* emotion detect_emotion returns.
C29_ReflectionKeyedByEmotion ==
  (/\ HasMessage(call)
   /\ call.branch = "topic_step"
   /\ SubSeq(call.sent[1], 1, Len(text_facts[TextOf(call)].reflect))
        = text_facts[TextOf(call)].reflect)
    => (/\ text_facts[TextOf(call)].reflect = REFLECT_TENSE
             <=> text_facts[TextOf(call)].emotion = "tense"
        /\ text_facts[TextOf(call)].reflect = REFLECT_CALM
             <=> text_facts[TextOf(call)].emotion = "calm"
        /\ text_facts[TextOf(call)].reflect = REFLECT_UNCERTAIN
             <=> text_facts[TextOf(call)].emotion = "uncertain"
        /\ text_facts[TextOf(call)].reflect = REFLECT_NEUTRAL
             <=> text_facts[TextOf(call)].emotion = "neutral")

\* C30: with one call at a time, topic_locked implies a current topic; a
\* message is answered on the no-topic path only when detect_intent found no
\* intent, and that path leaves AppState as it was.
C30_LockedHasTopic ==
  /\ [](Get(app_state, "topic_locked", FALSE) => Get(app_state, "topic", None) # None)
  /\ [][call'.branch = "no_topic"
          => (/\ text_facts[TextOf(call')].intent[1] = None
              /\ app_state' = app_state)]_vars

\* a message with no intent was answered on the no-topic path by a user who
\* had locked a topic during the questionnaire, the lock since released
C30_Witness ==
  /\ call.branch = "no_topic"
  /\ call.response = "ok"
  /\ call.update.update_id = MaxUpdateId
  /\ Get(app_state, "kno_done", FALSE)
  /\ "topic_locked" \in DOMAIN app_state
  /\ ~app_state.topic_locked
  /\ app_state.topic = None

-----------------------------------------------------------------------------
\* Claims C31..C34

\* the phases the open questions are keyed by
TurnPhases == {"engage", "focus", "evoke", "plan"}

\* C31: the phase logged with a normal turn (a reply on the topic or on the
\* no-topic path, with its two rows inserted) is one of engage, focus, evoke,
\* plan, whatever the earlier calls were.
C31_PhaseIsOneOfFour ==
  (call.branch \in {"topic_step", "no_topic"} /\ call.response = "ok")
    => dialog_events.last.mi_phase \in TurnPhases

\* C32: every topic detect_intent returns for a message's text scores 0.4,
\* 0.5, 0.55 or 0.65, and with the questionnaire complete a message that
\* reaches the classifier while no topic is locked and whose text matches any
\* pattern makes the detected pair current: the threshold rejects none.
C32_ThresholdNeverRejects ==
  /\ [](HasMessage(call) /\ text_facts[TextOf(call)].intent[1] # None
          => text_facts[TextOf(call)].intent[3] \in {400, 500, 550, 650})
  /\ [][(/\ Get(app_state, "kno_done", FALSE)
         /\ ReachesDialogue(call')
         /\ ~Get(app_state, "topic_locked", FALSE)
         /\ text_facts[TextOf(call')].intent[1] # None)
          => (/\ call'.branch = "topic_step"
              /\ Get(app_state', "topic", None) = text_facts[TextOf(call')].intent[1]
              /\ Get(app_state', "subtopic", None) = text_facts[TextOf(call')].intent[2])]_vars

\* a topic word late in the text, the lowest score there is, has been adopted
C32_Witness ==
  /\ call.branch = "topic_step"
  /\ text_facts[TextOf(call)].intent = <<"finance", None, 400>>
  /\ Get(app_state, "topic", None) = "finance"
  /\ Get(app_state, "subtopic", None) = None
  /\ ~Get(app_state, "topic_locked", FALSE)

\* the draft line 671 composes for the call c, given the newest row before the
\* call and the profile row after update_profile
no_topic_draft(events, profile, c) ==
  personalized_reply(profile, text_facts[TextOf(c)].reflect,
                     phase_after([dialog_events |-> events], text_facts[TextOf(c)]))

\* C33: on the no-topic reply path the draft of reflection and open question
\* is shorter than the quality gate's minimum, and the reply sent is the
\* fixed fallback.
C33_NoTopicAlwaysFallback ==
  [][call'.branch = "no_topic"
       => (/\ Len(no_topic_draft(dialog_events, psycho_profile', call')) < QUALITY_MIN_LEN
           /\ call'.sent = <<FALLBACK_REPLY>>)]_vars

\* the longest such draft, a calm reflection with the plan question in the
\* style of a planning, concrete profile, was replaced by the fallback
C33_Witness ==
  /\ call.branch = "no_topic"
  /\ call.response = "ok"
  /\ text_facts[TextOf(call)].emotion = "calm"
  /\ dialog_events.last.mi_phase = "plan"
  /\ Len(personalized_reply(psycho_profile, text_facts[TextOf(call)].reflect, "plan"))
       = QUALITY_MIN_LEN - 2
  /\ call.sent = <<FALLBACK_REPLY>>
  /\ dialog_events.last.text = FALLBACK_REPLY

\* the keys of the first n questions
first_keys(n) == {KNO[i].key : i \in 1..n}

\* C34: while the questionnaire is in progress kno_idx is in 0..5 and
\* kno_answers holds exactly the answers to the first kno_idx questions; once
\* kno_done is true kno_idx is null, kno_answers holds all six answers, each 1
\* or 2, and the user has a psycho_profile row.
C34_QuestionnaireState ==
  LET idx == Get(app_state, "kno_idx", NoneInt)
      answers == Get(app_state, "kno_answers", EmptyDict)
  IN /\ InProgress(app_state)
          => (/\ idx \in 0..(Len(KNO) - 1)
              /\ DOMAIN answers = first_keys(idx)
              /\ \A k \in DOMAIN answers : answers[k] \in {1, 2})
     /\ Get(app_state, "kno_done", FALSE)
          => (/\ idx = NoneInt
              /\ DOMAIN answers = first_keys(Len(KNO))
              /\ \A k \in DOMAIN answers : answers[k] \in {1, 2}
              /\ psycho_profile # NoRow)

\* five questions answered, both choices among the answers, the sixth asked
C34_Witness ==
  /\ InProgress(app_state)
  /\ app_state.kno_idx = Len(KNO) - 1
  /\ DOMAIN app_state.kno_answers = first_keys(Len(KNO) - 1)
  /\ {app_state.kno_answers[k] : k \in DOMAIN app_state.kno_answers} = {1, 2}
  /\ call.branch = "kno_answer"
====
